---- MODULE Spec2Model ----
(***************************************************************************)
(* The motion-based DartTracker (src/unnamed/part_006, the dart-tracker    *)
(* module used by src/src/app/slave/page.tsx) as a state machine: its      *)
(* fields, its detection loop driven by requestAnimationFrame, its timers  *)
(* and the calls the page makes on it.                                     *)
(*                                                                         *)
(* Frames.  A captured frame is abstracted to the number of darts that are *)
(* in the board when it is taken: <<n>>; a missing frame (null) is <<>>.   *)
(* Two frames differ by one dart-sized region for every dart by which      *)
(* their dart counts differ.  The area of a region is measured anew on     *)
(* every captured frame: DartPixels, a valid dart that also counts as      *)
(* motion between two consecutive frames, or SmallDartPixels, a valid dart *)
(* below the motion threshold.                                             *)
(* The camera is the tracker's only view of the board, so                  *)
(* the board changes at the captures: each capture takes as input the      *)
(* scene it sees (a dart more than the last capture saw, no dart, or the   *)
(* same).  Movement in front of the camera (a hand, a dart in flight) is   *)
(* an input of each loop iteration.  A data URL is an opaque string.       *)
(*                                                                         *)
(* Time.  Date.now() only enters the code as Date.now()-lastDetectionTime  *)
(* compared with DETECTION_DEBOUNCE_MS and as setTimeout delays, so the    *)
(* model keeps the elapsed time since lastDetectionTime (saturated at the  *)
(* debounce window) and the time left on every armed timer.  Time moves in *)
(* steps of TickMs, between two steps of the tracker and inside a loop     *)
(* iteration before it reads the clock.  A timer never fires early; it may *)
(* fire late, since no timer fires while a callback runs.                  *)
(***************************************************************************)
EXTENDS Integers, Sequences, FiniteSets, TLC

\* ---------------------------------------------------------------- bounds
MaxOnBoard == 3          \* darts that can physically be in the board
MaxThrown == 3           \* darts thrown in a behaviour
MaxLoops == 2            \* loop iterations in flight or scheduled
MaxStabilityFrames == 17 \* cap of MotionState.stabilityFrames
MaxCalls == 1            \* calls that interrupt a turn
MaxDarts == 4            \* detections the dart list is followed up to
MaxFeeds == 20           \* frames without motion fed to the motion stabilizer in a row
MaxRegions == 3          \* connected regions in a difference mask

\* ------------------------------------------------------ program constants
DETECTION_DEBOUNCE_MS == 1500
REMOVAL_THRESHOLD == 100
MOTION_THRESHOLD == 500
STABILITY_FRAMES_REQUIRED == 15
MIN_DART_AREA == 100
MAX_DART_AREA == 5000
MIN_CONTOUR_AREA == 50
MAX_CONTOUR_AREA == 10000
maxHistory == 5
SettleDelayMs == 500
RemovalDelayMs == 1000
AutoStartDelayMs == 1000
AcceptConfidencePct == 50

TickMs == SettleDelayMs
Delays == {0, TickMs, 2 * TickMs}
TimerKinds == {"settle", "removal", "autoStart"}

\* Pixel area of the region one dart changes, and of a moving hand.
DartPixels == 2 * MOTION_THRESHOLD
SmallDartPixels == 372
MovingPixels == 2 * MOTION_THRESHOLD

\* Candidate confidences (percent) the validator can report.
Confidences == {30, AcceptConfidencePct, 65}

NoFrame == <<>>
NoURL == ""
DataURL == "data:image/jpeg"
\* A DartDetection; its segment, points and position play no part in the tracker.
Dart == "dart"
TrackerStates == {"idle", "no-board", "waiting-dart-1", "waiting-dart-2",
                  "waiting-dart-3", "turn-complete", "waiting-removal"}

VARIABLES
    state, referenceFrame, referenceFrameDataURL, previousFrame, detectedDarts,
    video, isRunning, detectionInterval, boardSmoother, currentBoard,
    motionState, sinceLastDetection,
    calibration,      \* localStorage 'dart-calibration': <<>> or <<referenceFrame>>
    rafPending,       \* ids of the requestAnimationFrame callbacks not yet run
    inflight,         \* frames of the iterations suspended in checkRemoval
    timers,           \* timers[kind][ms left] = number of armed timers
    dartsOnBoard,     \* the darts in the board at the last capture
    thrown,           \* the darts thrown so far
    calls,            \* interrupting calls so far
    callbacks,        \* the callbacks invoked by the last step, in order
    referenceOrigin,  \* who captured referenceFrame: "startTurn", "dart", "none"
    sinceAccept,      \* time since the last accepted dart, saturated
    lastAccept,       \* when the last dart was accepted: the time since the dart
                      \* before it (saturated)
    measuredArea,     \* the changed area detectMotion found in the last loop
                      \* iteration (0 when it was not called)
    afterReset,       \* "no"; "idle" from reset() until the caller calls startTurn();
                      \* "restarted" from then on
    \* The motion stabilizer on its own, fed with changed areas.
    stabilizer,       \* the MotionState returned by the last call
    quietCalls,       \* calls without motion since the last call with motion
    sawMotion,        \* a call with motion has been made
    \* The colour test on its own.
    pixel,            \* <<r, g, b>>
    masks,            \* <<>>, or <<the pixel's HSV and its bits in the three masks>>
    \* Frame differencing on its own.
    regions,          \* sizes of the connected regions of the cleaned mask, in scan order
    diffResult,       \* <<>>, or <<the FrameDiffResult>>
    \* Dart validation on its own.
    dartCandidate,    \* the features measured on the largest contour
    verdict,          \* <<>>, or <<confidences and decisions of the detectors>>
    \* Board detection and its smoother on their own.
    boardDetector,    \* the module behind './board-detector'
    detections,       \* BoardDetectorSmoother.detections: the confidences kept
    boardResult,      \* <<>>, or <<what detectBoard and getSmoothed returned>>
    \* The segment mapper on its own.
    point,            \* <<>>, or <<the normalized point, in thousandths>>
    mapped,           \* <<>>, or <<the DetectionResult and its validation>>
    wedge             \* <<>>, or <<a polar position, its ring and its segment>>

fieldVars == <<state, referenceFrame, referenceFrameDataURL, previousFrame,
               detectedDarts, video, boardSmoother, currentBoard, motionState,
               sinceLastDetection, calibration>>
trackerVars == <<fieldVars, isRunning>>
loopVars == <<detectionInterval, rafPending, inflight>>
envVars == <<dartsOnBoard, thrown>>
ghostVars == <<referenceOrigin, sinceAccept, lastAccept, measuredArea,
               afterReset>>
stabilizerVars == <<stabilizer, quietCalls, sawMotion>>
\* The variables of the functions exercised on their own.
colorVars == <<pixel, masks>>
diffVars == <<regions, diffResult>>
candidateVars == <<dartCandidate, verdict>>
boardVars == <<boardDetector, detections, boardResult>>
mapperVars == <<point, mapped, wedge>>
labVars == <<stabilizerVars, colorVars, diffVars, candidateVars, boardVars,
            mapperVars>>
allTrackerVars == <<trackerVars, loopVars, timers, envVars, calls, callbacks,
                    ghostVars>>
vars == <<allTrackerVars, labVars>>

\* ------------------------------------------------------------- callbacks
Cb(name, arg, n) == [cb |-> name, arg |-> arg, n |-> n]
onStateChange(s) == Cb("onStateChange", s, 0)
onBoardDetected(b) == Cb("onBoardDetected", IF b THEN "true" ELSE "false", 0)
onMotionStatus(s) == Cb("onMotionStatus", s, 0)
onDartDetected(n) == Cb("onDartDetected", "", n)
onTurnComplete(darts) == Cb("onTurnComplete", "", Len(darts))
\* detectLoop's catch reports the error on the console; logged like a callback.
consoleError == Cb("console.error", "[DartTracker] Detection error:", 0)

Called(name) == \E i \in 1..Len(callbacks) : callbacks[i].cb = name
CalledWith(c) == \E i \in 1..Len(callbacks) : callbacks[i] = c

\* ------------------------------------------------------------ frame source
\* A scene: the darts in the board, whether a dart changes a small area of
\* the frame, and whether the canvas gives a 2d context (captureFrame and
\* captureFrameAsDataURL return null without one).
Scenes(onBoard) ==
    [darts : {onBoard, 0} \cup {n \in {onBoard + 1} : n <= MaxOnBoard},
     small : BOOLEAN,
     context : BOOLEAN]
captureFrame(scene) == IF scene.context THEN <<scene.darts>> ELSE NoFrame
captureFrameAsDataURL(scene) == IF scene.context THEN DataURL ELSE NoURL
\* The scenes of a later capture of the same run: the canvas that gave a
\* context gives it again.
ScenesAgain(scene) ==
    IF captureFrame(scene) = NoFrame THEN {scene}
    ELSE [darts : {scene.darts, 0} \cup {n \in {scene.darts + 1} : n <= MaxOnBoard},
          small : {scene.small},
          context : {TRUE}]
\* A capture that shows one dart more than the capture before it: a dart was
\* thrown in between.
Throws(before, after) == IF after > before THEN 1 ELSE 0

\* findContours: the regions that pass the size filter, in scan order.
ContourKept(size) == size >= MIN_CONTOUR_AREA /\ size <= MAX_CONTOUR_AREA
findContours(mask) == SelectSeq(mask, ContourKept)

\* detectFrameDifference on a cleaned mask given by its regions: the loop over
\* the contours keeps the first one that is longer than all before it
\* (0: none); the result holds that contour, its centre of mass (that of the
\* same contour), and changeArea, the length of that contour.
frameDiffResult(mask) ==
    LET contours == findContours(mask)
        maxArea[i \in 0..Len(contours)] ==
            IF i = 0 THEN 0
            ELSE IF contours[i] > maxArea[i - 1] THEN contours[i] ELSE maxArea[i - 1]
        largestContour[i \in 0..Len(contours)] ==
            IF i = 0 THEN 0
            ELSE IF contours[i] > maxArea[i - 1] THEN i ELSE largestContour[i - 1]
        largest == largestContour[Len(contours)]
    IN  [largestContour |-> largest, centerOfMass |-> largest,
         changeArea |-> maxArea[Len(contours)]]

\* The cleaned difference mask of two frames: one dart-sized region for every
\* dart by which they differ.
diffRegions(currentFrame, reference, small) ==
    IF currentFrame = reference THEN <<>>
    ELSE LET more == currentFrame[1] - reference[1]
             darts == IF more < 0 THEN -more ELSE more
         IN  [i \in 1..darts |-> IF small THEN SmallDartPixels ELSE DartPixels]

\* changeArea of detectFrameDifference for equal frames and for frames that
\* differ by a dart.
SameChangeArea == frameDiffResult(<<>>).changeArea
DartChangeArea == frameDiffResult(<<DartPixels>>).changeArea
SmallDartChangeArea == frameDiffResult(<<SmallDartPixels>>).changeArea

\* changeArea of detectFrameDifference, the size of the largest changed region:
\* frameDiffResult(diffRegions(currentFrame, reference, small)).changeArea.
detectFrameDifference(currentFrame, reference, small) ==
    IF diffRegions(currentFrame, reference, small) = <<>> THEN SameChangeArea
    ELSE IF small THEN SmallDartChangeArea
    ELSE DartChangeArea

\* ------------------------------------------------------- IEEE 754 doubles
\* The colour test computes on doubles, and a hue or saturation that is on a
\* bound as a fraction may be a double beside it: the arithmetic is modelled
\* as the engine does it, every operation being the exact result rounded to
\* 53 significant bits, ties to even.  A natural number of any size is the
\* sequence of its digits to the base Limb, lowest first, without leading
\* zeros; a double is its sign, its 53-bit mantissa m and its exponent e, of
\* value m * 2^e, or Zero.  The values of the colour test and of the segment
\* mapper are far from overflow, underflow and NaN.
LimbBits == 15
Limb == 2^LimbBits

Digit(a, i) == IF i <= Len(a) THEN a[i] ELSE 0

BigStrip(a) ==
    LET RECURSIVE Upto(_)
        Upto(j) == IF j = 0 THEN <<>>
                   ELSE IF a[j] # 0 THEN SubSeq(a, 1, j)
                   ELSE Upto(j - 1)
    IN  Upto(Len(a))

BigLess(a, b) ==
    LET RECURSIVE From(_)
        From(i) == IF i = 0 THEN FALSE
                   ELSE IF a[i] # b[i] THEN a[i] < b[i]
                   ELSE From(i - 1)
    IN  IF Len(a) # Len(b) THEN Len(a) < Len(b) ELSE From(Len(a))

BigAdd(a, b) ==
    LET RECURSIVE From(_, _)
        From(i, carry) ==
            IF i > Len(a) /\ i > Len(b) THEN (IF carry = 0 THEN <<>> ELSE <<carry>>)
            ELSE <<(Digit(a, i) + Digit(b, i) + carry) % Limb>>
                 \o From(i + 1, (Digit(a, i) + Digit(b, i) + carry) \div Limb)
    IN  From(1, 0)

\* a - b, for a >= b
BigSub(a, b) ==
    LET RECURSIVE From(_, _)
        From(i, borrow) ==
            IF i > Len(a) THEN <<>>
            ELSE <<(Limb + a[i] - Digit(b, i) - borrow) % Limb>>
                 \o From(i + 1, IF a[i] - Digit(b, i) - borrow < 0 THEN 1 ELSE 0)
    IN  BigStrip(From(1, 0))

\* a * k, for k < Limb
BigTimes(a, k) ==
    LET RECURSIVE From(_, _)
        From(i, carry) ==
            IF i > Len(a) THEN (IF carry = 0 THEN <<>> ELSE <<carry>>)
            ELSE <<(a[i] * k + carry) % Limb>> \o From(i + 1, (a[i] * k + carry) \div Limb)
    IN  IF k = 0 THEN <<>> ELSE From(1, 0)

\* a * 2^k
BigShift(a, k) ==
    IF a = <<>> THEN <<>>
    ELSE [i \in 1..(k \div LimbBits) |-> 0] \o BigTimes(a, 2^(k % LimbBits))

BigMul(a, b) ==
    LET RECURSIVE From(_)
        From(i) == IF i > Len(b) THEN <<>>
                   ELSE BigAdd(BigShift(BigTimes(a, b[i]), LimbBits * (i - 1)), From(i + 1))
    IN  From(1)

\* a \div 2^k
BigShiftDown(a, k) ==
    LET limbs == k \div LimbBits
        low == 2^(k % LimbBits)
        rest == SubSeq(a, limbs + 1, Len(a))
    IN  BigStrip([i \in 1..Len(rest) |->
                    (rest[i] \div low) + (Digit(rest, i + 1) % low) * (Limb \div low)])

\* The number of bits of a.
BigBits(a) ==
    LET RECURSIVE Bits(_)
        Bits(k) == IF k = 0 THEN 0 ELSE 1 + Bits(k \div 2)
    IN  IF a = <<>> THEN 0 ELSE LimbBits * (Len(a) - 1) + Bits(a[Len(a)])

\* Quotient and remainder of n by d > 0: long division, a digit at a time,
\* each digit found from its highest bit down.
BigDivMod(n, d) ==
    LET RECURSIVE Find(_, _, _)
        Find(r, k, q) ==
            IF k < 0 THEN q
            ELSE IF BigLess(r, BigTimes(d, q + 2^k)) THEN Find(r, k - 1, q)
            ELSE Find(r, k - 1, q + 2^k)
        RECURSIVE From(_, _, _)
        From(i, rem, quot) ==
            IF i = 0 THEN [quot |-> quot, rem |-> rem]
            ELSE LET r == BigStrip(<<n[i]>> \o rem)
                     q == IF BigLess(r, d) THEN 0 ELSE Find(r, LimbBits - 1, 0)
                 IN  From(i - 1, BigSub(r, BigTimes(d, q)),
                          IF quot = <<>> /\ q = 0 THEN <<>> ELSE <<q>> \o quot)
    IN  From(Len(n), <<>>, <<>>)

Zero == [neg |-> FALSE, m |-> <<>>, e |-> 0]

\* The double of sign neg nearest to (qr.quot + f) * 2^ex, for a quotient of
\* more than 54 bits and a fraction f that is 0 exactly when qr.rem is: the
\* quotient is cut to its 53 highest bits, and the bits dropped and the
\* remainder decide the rounding, ties to even.
Nearest(neg, qr, ex) ==
    LET drop == BigBits(qr.quot) - 53
        kept == BigShiftDown(qr.quot, drop)
        twice == BigTimes(BigSub(qr.quot, BigShift(kept, drop)), 2)
        half == BigShift(<<1>>, drop)
        up == \/ BigLess(half, twice)
              \/ twice = half /\ (qr.rem # <<>> \/ kept[1] % 2 = 1)
    IN  IF up /\ BigBits(BigAdd(kept, <<1>>)) = 54
        THEN [neg |-> neg, m |-> BigShiftDown(BigAdd(kept, <<1>>), 1), e |-> ex + drop + 1]
        ELSE [neg |-> neg, m |-> IF up THEN BigAdd(kept, <<1>>) ELSE kept, e |-> ex + drop]

\* The double nearest to n / d * 2^e: n is shifted until the quotient has 55
\* bits or more.
Round(neg, n, d, e) ==
    LET need == 55 + BigBits(d) - BigBits(n)
        shift == IF need > 0 THEN need ELSE 0
    IN  IF n = <<>> THEN Zero
        ELSE Nearest(neg,
                     IF d = <<1>> THEN [quot |-> BigShift(n, shift), rem |-> <<>>]
                     ELSE BigDivMod(BigShift(n, shift), d),
                     e - shift)

\* The double of an integer, which is exact.
Double(k) ==
    LET RECURSIVE BigOf(_)
        BigOf(j) == IF j = 0 THEN <<>> ELSE <<j % Limb>> \o BigOf(j \div Limb)
        n == BigOf(IF k < 0 THEN -k ELSE k)
    IN  IF k = 0 THEN Zero
        ELSE [neg |-> k < 0, m |-> BigShift(n, 53 - BigBits(n)), e |-> BigBits(n) - 53]

flDiv(x, y) == Round(x.neg # y.neg, x.m, y.m, x.e - y.e)

flMul(x, y) == Round(x.neg # y.neg, BigMul(x.m, y.m), <<1>>, x.e + y.e)

flAdd(x, y) ==
    LET e == IF x.e < y.e THEN x.e ELSE y.e
        a == BigShift(x.m, x.e - e)
        b == BigShift(y.m, y.e - e)
    IN  IF x.m = <<>> THEN y
        ELSE IF y.m = <<>> THEN x
        ELSE Round(IF x.neg = y.neg \/ ~BigLess(a, b) THEN x.neg ELSE y.neg,
                   IF x.neg = y.neg THEN BigAdd(a, b)
                   ELSE IF BigLess(a, b) THEN BigSub(b, a)
                   ELSE BigSub(a, b),
                   <<1>>, e)

flSub(x, y) == flAdd(x, IF y.m = <<>> THEN Zero ELSE [y EXCEPT !.neg = ~y.neg])

\* The integer part of the square root of n: Newton's iteration from a power
\* of two above the root, which descends until it has passed the root.
BigSqrt(n) ==
    LET RECURSIVE From(_)
        From(r) ==
            LET next == BigShiftDown(BigAdd(r, BigDivMod(n, r).quot), 1)
            IN  IF BigLess(next, r) THEN From(next) ELSE r
    IN  IF n = <<>> THEN <<>> ELSE From(BigShift(<<1>>, (BigBits(n) + 1) \div 2))

\* The double nearest to the square root of m * 2^(2 * half), for m of 110
\* bits or more: the integer root has 55 bits or more, and what it leaves of
\* m counts as a remainder in the rounding.
NearestRoot(m, root, half) ==
    Nearest(FALSE, [quot |-> root,
                    rem |-> IF BigMul(root, root) = m THEN <<>> ELSE <<1>>], half)

\* Math.sqrt(x), for x >= 0: the mantissa is shifted by 57 or 58 bits, so
\* that the exponent left is even.
flSqrt(x) ==
    IF x.m = <<>> THEN Zero
    ELSE NearestRoot(BigShift(x.m, 57 + ((x.e + 57) % 2)),
                     BigSqrt(BigShift(x.m, 57 + ((x.e + 57) % 2))),
                     (x.e - 57 - ((x.e + 57) % 2)) \div 2)

\* Math.floor(x), for 0 <= x < 2^31.
flFloor(x) ==
    LET RECURSIVE Value(_)
        Value(a) == IF a = <<>> THEN 0 ELSE a[1] + Limb * Value(Tail(a))
    IN  IF x.m = <<>> THEN 0
        ELSE IF x.e >= 0 THEN Value(BigShift(x.m, x.e))
        ELSE Value(BigShiftDown(x.m, 0 - x.e))

\* x < y: doubles of one sign are ordered by exponent, then by mantissa.
flLess(x, y) ==
    IF x.m = <<>> THEN y.m # <<>> /\ ~y.neg
    ELSE IF y.m = <<>> \/ x.neg # y.neg THEN x.neg
    ELSE LET below == x.e < y.e \/ (x.e = y.e /\ BigLess(x.m, y.m))
         IN  IF x.neg THEN ~below /\ x # y ELSE below

\* lo <= x && x <= hi
flWithin(x, lo, hi) == ~flLess(x, Double(lo)) /\ ~flLess(Double(hi), x)

\* ------------------------------------------------------------ colour test
BLUE_HSV == [hMin |-> 200, hMax |-> 240, sMin |-> 50, sMax |-> 255, vMin |-> 50, vMax |-> 255]
RED_HSV == [hMin |-> 0, hMax |-> 15, sMin |-> 100, sMax |-> 255, vMin |-> 100, vMax |-> 255]
WHITE_HSV == [hMin |-> 0, hMax |-> 360, sMin |-> 0, sMax |-> 30, vMin |-> 200, vMax |-> 255]

\* rgbToHsv after finding max and min, with d = max - min.
hsvRange(R, G, B, max, min, d) ==
    [h |-> flMul(IF max = min THEN Zero
                 ELSE flDiv(IF max = R
                            THEN flAdd(flDiv(flSub(G, B), d),
                                       IF flLess(G, B) THEN Double(6) ELSE Zero)
                            ELSE IF max = G THEN flAdd(flDiv(flSub(B, R), d), Double(2))
                            ELSE flAdd(flDiv(flSub(R, G), d), Double(4)),
                            Double(6)),
                 Double(360)),
     s |-> flMul(IF max = Zero THEN Zero ELSE flDiv(d, max), Double(255)),
     v |-> flMul(max, Double(255))]

\* rgbToHsv after "r /= 255; g /= 255; b /= 255".
hsvScaled(R, G, B) ==
    LET maxRG == IF flLess(R, G) THEN G ELSE R
        max == IF flLess(maxRG, B) THEN B ELSE maxRG
        minRG == IF flLess(G, R) THEN G ELSE R
        min == IF flLess(B, minRG) THEN B ELSE minRG
    IN  hsvRange(R, G, B, max, min, flSub(max, min))

\* rgbToHsv, operation by operation.
rgbToHsv(r, g, b) ==
    hsvScaled(flDiv(Double(r), Double(255)), flDiv(Double(g), Double(255)),
              flDiv(Double(b), Double(255)))

\* s >= sMin && s <= sMax && v >= vMin && v <= vMax
satValWithin(hsv, range) ==
    /\ flWithin(hsv.s, range.sMin, range.sMax)
    /\ flWithin(hsv.v, range.vMin, range.vMax)

\* isColorPixel after the conversion, without the second hue interval.
matchesRangeNoWrap(hsv, range) ==
    /\ flWithin(hsv.h, range.hMin, range.hMax)
    /\ satValWithin(hsv, range)

\* isColorPixel after the conversion.  In the red branch && binds tighter
\* than ||: the saturation and value tests belong to the second hue interval
\* only.
matchesRange(hsv, range) ==
    LET \* if (h < 0) h += 360
        h == IF flLess(hsv.h, Zero) THEN flAdd(hsv.h, Double(360)) ELSE hsv.h
    IN  IF range.hMin = 0 /\ range.hMax = 15
        THEN \/ flWithin(h, range.hMin, range.hMax)
             \/ flWithin(h, 345, 360) /\ satValWithin(hsv, range)
        ELSE flWithin(h, range.hMin, range.hMax) /\ satValWithin(hsv, range)

isColorPixel(r, g, b, range) == matchesRange(rgbToHsv(r, g, b), range)

\* ------------------------------------------------------- motion stabilizer
createMotionState ==
    [isStable |-> FALSE, stabilityFrames |-> 0, lastMotionArea |-> 0, hasMotion |-> FALSE]

noMotionOfArea(area) == [hasMotion |-> FALSE, motionArea |-> area]

\* detectMotion, given the changeArea detectFrameDifference found.
motionOfArea(area) == [hasMotion |-> area > MOTION_THRESHOLD, motionArea |-> area]

detectMotion(currentFrame, previous, small, moved) ==
    IF previous = NoFrame
    THEN [hasMotion |-> FALSE, motionArea |-> 0]
    ELSE motionOfArea(IF moved THEN MovingPixels
                      ELSE detectFrameDifference(currentFrame, previous, small))

stableBefore(frames) == frames + 1 >= STABILITY_FRAMES_REQUIRED

\* updateMotionState: isStable for the new count of frames without motion.
stableAt(frames) == frames >= STABILITY_FRAMES_REQUIRED

\* updateMotionState, given what detectMotion returned.
nextMotionState(ms, motion) ==
    IF motion.hasMotion
    THEN [isStable |-> FALSE, stabilityFrames |-> 0,
          lastMotionArea |-> motion.motionArea, hasMotion |-> TRUE]
    ELSE [isStable |-> stableAt(ms.stabilityFrames + 1),
          stabilityFrames |-> ms.stabilityFrames + 1,
          lastMotionArea |-> motion.motionArea, hasMotion |-> FALSE]

updateMotionState(ms, currentFrame, previous, small, moved) ==
    nextMotionState(ms, detectMotion(currentFrame, previous, small, moved))

\* -------------------------------------------------------- dart validation
\* Aspect ratios are in tenths, distances in hundredths of the board radius,
\* confidences in hundredths.
MIN_ASPECT_RATIO == 20
MAX_ASPECT_RATIO == 150
MIN_CONTRAST == 30
BoundsMarginPct == 120

Min(a, b) == IF a < b THEN a ELSE b

Invalid == [isValid |-> FALSE, confidence |-> 0]

\* validateDartCandidate of the multi-feature validator.
validateDartCandidate(c) ==
    IF c.area < MIN_DART_AREA \/ c.area > MAX_DART_AREA THEN Invalid
    ELSE IF c.centerDist > BoundsMarginPct THEN Invalid
    ELSE IF c.aspectRatio < MIN_ASPECT_RATIO \/ c.aspectRatio > MAX_ASPECT_RATIO
    THEN Invalid
    ELSE [isValid |-> TRUE,
          confidence |-> 30
              + (IF c.aspectRatio >= 30 /\ c.aspectRatio <= 100 THEN 20 ELSE 0)
              + (IF c.centerDist < 80 THEN 15 ELSE 0)]

\* Math.min(1.0, confidence)
clampConfidence(confidence) == Min(100, confidence)

\* detectNewDart after the validation: the candidate's confidence.
candidateConfidence(c) ==
    LET validation == validateDartCandidate(c)
    IN  clampConfidence(validation.confidence
            + (IF c.contrast >= MIN_CONTRAST THEN Min(20, c.contrast) ELSE 0)
            + (IF c.hasEdge THEN 15 ELSE 0))

\* What is measured on the largest changed region besides its size, as the
\* camera may show it: a region off the board, a round one, a dart of the
\* lowest confidence, one whose confidence is the acceptance threshold, and a
\* dart with every feature.
Shapes ==
    {[aspectRatio |-> 30, centerDist |-> BoundsMarginPct + 1, contrast |-> 255, hasEdge |-> TRUE],
     [aspectRatio |-> MIN_ASPECT_RATIO - 1, centerDist |-> 50, contrast |-> 255, hasEdge |-> TRUE],
     [aspectRatio |-> MIN_ASPECT_RATIO, centerDist |-> BoundsMarginPct, contrast |-> 0, hasEdge |-> FALSE],
     [aspectRatio |-> 30, centerDist |-> BoundsMarginPct, contrast |-> 0, hasEdge |-> FALSE],
     [aspectRatio |-> 30, centerDist |-> 50, contrast |-> 255, hasEdge |-> TRUE]}

\* The features of the largest changed region of detectFrameDifference.
Contour(area, shape) ==
    [area |-> area, aspectRatio |-> shape.aspectRatio, centerDist |-> shape.centerDist,
     contrast |-> shape.contrast, hasEdge |-> shape.hasEdge]

\* detectNewDart: <<>> for null, else <<the candidate's confidence>>.  There is
\* no largest contour when nothing changed; the candidate must pass the size,
\* position and aspect ratio tests of validateDartCandidate.
detectNewDart(currentFrame, reference, small, shape) ==
    IF diffRegions(currentFrame, reference, small) = <<>> THEN <<>>
    ELSE IF ~validateDartCandidate(
                Contour(detectFrameDifference(currentFrame, reference, small), shape)).isValid
    THEN <<>>
    ELSE <<candidateConfidence(
                Contour(detectFrameDifference(currentFrame, reference, small), shape))>>


\* ------------------------------------------------------------ small steps
IsWaitingDart(s) == s \in {"waiting-dart-1", "waiting-dart-2", "waiting-dart-3"}

BoardLostStateKept(s) == s

\* detectLoop, step 1: the state after the board was detected / not detected.
BoardFoundState(s) == IF s = "no-board" THEN "waiting-dart-1" ELSE s
BoardLostState(s) == IF s # "idle" /\ s # "waiting-removal" THEN "no-board" ELSE s

\* BoardDetectorSmoother.addDetection: the history keeps the last maxHistory.
addDetection(history) == Min(history + 1, maxHistory)

\* BoardDetectorSmoother.reset: the history is emptied.
smootherReset(history) == 0

\* detectStabilizedDart: the debounce test on Date.now() - lastDetectionTime.
Debounced(elapsed) == elapsed < DETECTION_DEBOUNCE_MS

\* detectStabilizedDart: the confidence a candidate needs.
ConfidentEnough(conf) == conf > AcceptConfidencePct

\* detectStabilizedDart: the state after dart number dartNumber.
NextDartState(s, dartNumber) ==
    IF dartNumber = 1 THEN "waiting-dart-2"
    ELSE IF dartNumber = 2 THEN "waiting-dart-3"
    ELSE IF dartNumber = 3 THEN "turn-complete"
    ELSE s

\* detectStabilizedDart: the reference frame after an accepted dart.
ReferenceAfterDart(old, scene) == captureFrame(scene)

CompletesTurnEarly(dartNumber) == dartNumber >= 2

\* detectStabilizedDart: whether onTurnComplete is invoked for dartNumber.
CompletesTurn(dartNumber) == dartNumber = 3

\* checkRemoval: the frame the current frame is compared with.
RemovalReference == referenceFrame

\* startTurn: the state it ends in.
StartTurnState(board) == "no-board"

\* ------------------------------------------------------------------ timers
NoTimers == [k \in TimerKinds |-> [d \in Delays |-> 0]]
Arm(tm, kind, ms) == [tm EXCEPT ![kind][ms] = @ + 1]
Disarm(tm, kind) == [tm EXCEPT ![kind][0] = @ - 1]

\* checkRemoval: setTimeout(() => this.startTurn(), 1000)
scheduleNextTurn(tm) == Arm(tm, "autoStart", AutoStartDelayMs)

\* ------------------------------------------------ requestAnimationFrame ids
\* A handle is opaque: the code only passes it to cancelAnimationFrame.  The
\* pending callbacks are numbered 1..n in the order they were scheduled, and
\* renumbered when one of them runs.  A handle whose callback has run names no
\* pending callback any more; all such handles are one value, StaleHandle.
\* 0 is null.
StaleHandle == 0 - 1
FreshId(pend) == Cardinality(pend) + 1
Others(pend, id) == 1..(Cardinality(pend) - 1)
Renumber(handle, id) ==
    IF handle = id THEN StaleHandle
    ELSE IF handle > id THEN handle - 1
    ELSE handle

\* this.detectionInterval = requestAnimationFrame(() => this.detectLoop())
Reschedule(pend) ==
    /\ rafPending' = pend \cup {FreshId(pend)}
    /\ detectionInterval' = FreshId(pend)

LoopEnds(pend) ==
    /\ rafPending' = pend
    /\ UNCHANGED detectionInterval

\* detectLoop after its catch block: the next run is scheduled all the same.
RescheduleAfterError(pend) == Reschedule(pend)


\* -------------------------------------------------------------------- Init
TrackerInit ==
    /\ state = "idle"
    /\ referenceFrame = NoFrame
    /\ referenceFrameDataURL = NoURL
    /\ previousFrame = NoFrame
    /\ detectedDarts = <<>>
    /\ video = FALSE
    /\ isRunning = FALSE
    /\ detectionInterval = 0
    /\ boardSmoother = 0
    /\ currentBoard = FALSE
    /\ motionState = createMotionState
    /\ sinceLastDetection = DETECTION_DEBOUNCE_MS
    /\ calibration = <<NoURL>>
    /\ rafPending = {}
    /\ inflight = <<>>
    /\ timers = NoTimers
    /\ dartsOnBoard = 0
    /\ thrown = 0
    /\ calls = 0
    /\ callbacks = <<>>
    /\ referenceOrigin = "none"
    /\ sinceAccept = DETECTION_DEBOUNCE_MS
    /\ lastAccept = [after |-> DETECTION_DEBOUNCE_MS]
    /\ measuredArea = 0
    /\ afterReset = "no"
StabilizerInit ==
    /\ stabilizer = createMotionState
    /\ quietCalls = 0
    /\ sawMotion = FALSE
ColorIdle ==
    /\ pixel = <<0, 0, 0>>
    /\ masks = <<>>
DiffIdle ==
    /\ regions = <<>>
    /\ diffResult = <<>>
CandidateIdle ==
    /\ dartCandidate = <<>>
    /\ verdict = <<>>

\* The two modules that export detectBoard and BoardDetectorSmoother.
BoardDetectors == {"multi-colour", "blue-only"}

BoardIdle ==
    /\ boardDetector = "multi-colour"
    /\ detections = <<>>
    /\ boardResult = <<>>

MapperIdle ==
    /\ point = <<>>
    /\ mapped = <<>>
    /\ wedge = <<>>
\* The tracker as constructed; no function is exercised on its own.
Init ==
    /\ TrackerInit /\ StabilizerInit /\ ColorIdle /\ DiffIdle /\ CandidateIdle
    /\ BoardIdle /\ MapperIdle

\* ------------------------------------------------------------- detectLoop
\* A run of detectLoop suspended at an await: the frame it captured and the
\* call it awaits ("import": the import() inside checkRemoval).
Suspended(frame, at) == [frame |-> frame, at |-> at]

\* A run called by start() is suspended at its first await: the caller of
\* start() is still running, and no callback, timer or time step comes before
\* the microtask that resumes the run.
AwaitsInStart == \E i \in 1..Len(inflight) : inflight[i].at # "import"

\* The timers after ms have passed: none fires by itself, a timer that is due
\* stays due until the event loop runs it.
Aged(tm, ms) ==
    IF ms = 0 THEN tm
    ELSE [k \in TimerKinds |->
            [d \in Delays |-> IF d = 0 THEN tm[k][0] + tm[k][TickMs]
                              ELSE IF d + TickMs \in Delays THEN tm[k][d + TickMs]
                              ELSE 0]]

\* Date.now() - lastDetectionTime after ms more have passed.
Elapsed(since, ms) == Min(since + ms, DETECTION_DEBOUNCE_MS)

\* One call of detectLoop once isRunning has been found true, up to the point
\* where it schedules the next run or is suspended by an await.  pend: the
\* callbacks still pending.  fromStart: start() made the call, so a suspended
\* run returns to the caller of start().  The inputs of a run, each drawn
\* where the code reads it: scene, what the camera shows at the capture;
\* threw, whether detectBoard threw (a region of the mask has more points
\* than the engine takes as the arguments of one push, part_009:289), which
\* detectLoop catches; board, whether detectBoard found the board; moved,
\* whether something moved between the previous frame and this one; took, the
\* time that has passed when detectStabilizedDart reads the clock; shape, the
\* shape of the largest changed region; scene2 and scene3, what the camera shows
\* when the accepted dart's reference frame and its data URL are captured.
\* A frame that is dropped (no context, or detectBoard threw) shows the board
\* as the capture before it.
detectLoop(pend, handle, fromStart) ==
    IF ~video
    THEN /\ Reschedule(pend)
         /\ callbacks' = <<>>
         /\ UNCHANGED <<fieldVars, inflight, timers, envVars, ghostVars>>
    ELSE \E scene \in Scenes(dartsOnBoard) :
    IF captureFrame(scene) = NoFrame
    THEN /\ scene.darts = dartsOnBoard /\ ~scene.small
         /\ Reschedule(pend)
         /\ callbacks' = <<>>
         /\ UNCHANGED <<fieldVars, inflight, timers, envVars, ghostVars>>
    ELSE \E threw \in BOOLEAN :
    IF threw
    THEN /\ scene.darts = dartsOnBoard /\ ~scene.small
         /\ RescheduleAfterError(pend)
         /\ callbacks' = <<consoleError>>
         /\ UNCHANGED <<fieldVars, inflight, timers, envVars, ghostVars>>
    ELSE \E board \in BOOLEAN :
    LET currentFrame == captureFrame(scene)
        \* Step 1: detect board
        state1 == IF board THEN BoardFoundState(state) ELSE BoardLostState(state)
        log1 == <<onBoardDetected(board)>> \o
                (IF (board /\ state = "no-board") \/ (~board /\ state1 = "no-board")
                 THEN <<onStateChange(state1)>> ELSE <<>>)
        board1 == board \/ currentBoard
        \* Step 2: motion detection
        tracking == board1 /\ referenceFrame # NoFrame /\ IsWaitingDart(state1)
    IN  \E moved \in IF tracking /\ previousFrame # NoFrame THEN BOOLEAN ELSE {FALSE} :
        \E motion2 \in {IF tracking
                        THEN updateMotionState(motionState, currentFrame, previousFrame,
                                               scene.small, moved)
                        ELSE motionState} :
        \E stabilized \in {tracking /\ ~motion2.hasMotion /\ motion2.isStable} :
        \E took \in IF stabilized THEN {0, TickMs} ELSE {0} :
    LET now == Elapsed(sinceLastDetection, took)
    IN  \E shape \in IF stabilized /\ ~Debounced(now) THEN Shapes ELSE {<<>>} :
        \E dartCandidate1 \in {IF stabilized /\ ~Debounced(now)
                               THEN detectNewDart(currentFrame, referenceFrame,
                                                  scene.small, shape)
                               ELSE <<>>} :
        \E accepted \in {dartCandidate1 # <<>> /\ ConfidentEnough(dartCandidate1[1])} :
        \E scene2 \in IF accepted THEN ScenesAgain(scene) ELSE {scene} :
        \E scene3 \in IF accepted THEN ScenesAgain(scene2) ELSE {scene2} :
    LET darts2 == IF accepted THEN Append(detectedDarts, Dart) ELSE detectedDarts
        dartNumber == Len(darts2)
        state2 == IF accepted THEN NextDartState(state1, dartNumber) ELSE state1
        reference2 == IF accepted THEN ReferenceAfterDart(referenceFrame, scene2)
                      ELSE referenceFrame
        log2 == IF ~tracking THEN <<>>
                ELSE IF motion2.hasMotion THEN <<onMotionStatus("Motion detected...")>>
                ELSE IF ~motion2.isStable THEN <<onMotionStatus("Waiting for dart...")>>
                ELSE <<onMotionStatus("Dart landed!")>> \o
                     (IF accepted
                      THEN <<onDartDetected(dartNumber)>> \o
                           (IF CompletesTurn(dartNumber)
                            THEN <<onTurnComplete(darts2)>> ELSE <<>>) \o
                           <<onStateChange(state2)>>
                      ELSE <<>>)
        \* Step 3: check for dart removal
        removal == state2 = "waiting-removal" /\ reference2 # NoFrame
        suspends == removal /\ board1
        \* the awaits of detectStabilizedDart and of checkRemoval
        awaits == stabilized \/ removal
    IN  /\ tracking /\ ~motion2.hasMotion
            => motionState.stabilityFrames < MaxStabilityFrames
        /\ accepted => Len(detectedDarts) < MaxDarts
        /\ scene.small => tracking /\ ~moved /\ previousFrame \notin {NoFrame, currentFrame}
        /\ state' = state2
        /\ currentBoard' = board1
        /\ boardSmoother' = IF board THEN addDetection(boardSmoother) ELSE boardSmoother
        /\ motionState' = IF accepted THEN createMotionState ELSE motion2
        /\ detectedDarts' = darts2
        /\ dartsOnBoard' = scene3.darts
        /\ thrown' = thrown + Throws(dartsOnBoard, scene.darts)
                          + Throws(scene.darts, scene2.darts)
                          + Throws(scene2.darts, scene3.darts)
        /\ thrown' <= MaxThrown
        /\ referenceFrame' = reference2
        /\ referenceOrigin' = IF accepted THEN "dart" ELSE referenceOrigin
        /\ referenceFrameDataURL' =
              IF accepted /\ reference2 # NoFrame /\ captureFrameAsDataURL(scene3) # NoURL
              THEN captureFrameAsDataURL(scene3) ELSE referenceFrameDataURL
        /\ sinceLastDetection' = IF accepted THEN 0 ELSE now
        /\ timers' = IF accepted /\ dartNumber = 3
                     THEN Arm(Aged(timers, took), "removal", RemovalDelayMs)
                     ELSE Aged(timers, took)
        /\ callbacks' = log1 \o log2
        /\ sinceAccept' = IF accepted THEN 0 ELSE Elapsed(sinceAccept, took)
        /\ lastAccept' = IF accepted
                         THEN [after |-> Elapsed(sinceAccept, took)]
                         ELSE lastAccept
        /\ measuredArea' = IF tracking THEN motion2.lastMotionArea ELSE 0
        /\ UNCHANGED <<video, calibration, afterReset>>
        /\ IF suspends
           THEN /\ inflight' = Append(inflight, Suspended(currentFrame, "import"))
                /\ rafPending' = pend
                /\ detectionInterval' = handle
                /\ UNCHANGED previousFrame
           ELSE IF fromStart /\ awaits
           THEN /\ inflight' = Append(inflight, Suspended(currentFrame, IF stabilized THEN "detectStabilizedDart"
                                                         ELSE "checkRemoval"))
                /\ rafPending' = pend
                /\ detectionInterval' = handle
                /\ UNCHANGED previousFrame
           ELSE /\ previousFrame' = currentFrame
                /\ Reschedule(pend)
                /\ UNCHANGED inflight

\* A requestAnimationFrame callback runs detectLoop.  The microtask that
\* resumes it after the await of detectStabilizedDart runs before the next
\* callback or timer, so the run is one step.
RunCallback ==
    \E id \in rafPending :
        /\ ~AwaitsInStart
        /\ IF ~isRunning
           THEN /\ rafPending' = Others(rafPending, id)
                /\ detectionInterval' = Renumber(detectionInterval, id)
                /\ callbacks' = <<>>
                /\ UNCHANGED <<fieldVars, inflight, timers, envVars, ghostVars>>
           ELSE detectLoop(Others(rafPending, id), Renumber(detectionInterval, id), FALSE)
        /\ UNCHANGED <<isRunning, calls, labVars>>

\* detectLoop called by start(), after the await of detectStabilizedDart or of
\* a checkRemoval that returned at once: the rest of the run, as a microtask
\* once the caller of start() has returned.
ResumeLoop ==
    \E i \in 1..Len(inflight) :
        LET rest == SubSeq(inflight, 1, i - 1) \o SubSeq(inflight, i + 1, Len(inflight))
            removal == /\ inflight[i].at = "detectStabilizedDart"
                       /\ state = "waiting-removal" /\ referenceFrame # NoFrame
        IN  /\ inflight[i].at # "import"
            /\ callbacks' = <<>>
            /\ IF removal
               THEN /\ inflight' = [inflight EXCEPT ![i].at =
                                       IF currentBoard THEN "import" ELSE "checkRemoval"]
                    /\ UNCHANGED <<previousFrame, detectionInterval, rafPending>>
               ELSE /\ inflight' = rest
                    /\ previousFrame' = inflight[i].frame
                    /\ Reschedule(rafPending)
            /\ UNCHANGED <<state, referenceFrame, referenceFrameDataURL, detectedDarts,
                           video, isRunning, boardSmoother, currentBoard, motionState,
                           sinceLastDetection, calibration, timers, envVars, calls,
                           ghostVars, labVars>>

\* checkRemoval after its await, then the rest of the suspended detectLoop.
\* With referenceFrame null detectFrameDifference throws; detectLoop's catch
\* swallows the error and previousFrame keeps its value.
ResumeRemoval ==
    \E i \in 1..Len(inflight) :
        LET currentFrame == inflight[i].frame
            rest == SubSeq(inflight, 1, i - 1) \o SubSeq(inflight, i + 1, Len(inflight))
            threw == RemovalReference = NoFrame
        IN  \E small \in BOOLEAN :
        LET removed == /\ ~threw
                       /\ detectFrameDifference(currentFrame, RemovalReference, small)
                              < REMOVAL_THRESHOLD
        IN  /\ ~AwaitsInStart
            /\ inflight[i].at = "import"
            /\ inflight' = rest
            /\ state' = IF removed THEN "idle" ELSE state
            /\ callbacks' = IF removed THEN <<onStateChange("idle")>>
                          ELSE IF threw THEN <<consoleError>> ELSE <<>>
            /\ timers' = IF removed THEN scheduleNextTurn(timers) ELSE timers
            /\ previousFrame' = IF threw THEN previousFrame ELSE currentFrame
            /\ IF threw THEN RescheduleAfterError(rafPending)
                        ELSE Reschedule(rafPending)
            /\ UNCHANGED <<referenceFrame, referenceFrameDataURL, detectedDarts, video,
                           isRunning, boardSmoother, currentBoard, motionState,
                           sinceLastDetection, calibration, envVars, calls, ghostVars,
                           labVars>>


\* ------------------------------------------------------ the tracker's API
\* initialize(video, canvas)
Initialize ==
    /\ ~video
    /\ video' = TRUE
    /\ referenceFrameDataURL' =
          IF calibration # <<>> /\ calibration[1] # NoURL
          THEN calibration[1] ELSE referenceFrameDataURL
    /\ callbacks' = <<>>
    /\ UNCHANGED <<state, referenceFrame, previousFrame, detectedDarts, isRunning,
                   boardSmoother, currentBoard, motionState, sinceLastDetection,
                   calibration, loopVars, timers, envVars, calls, ghostVars, labVars>>

\* startTurn() up to its await of the settle delay.
startTurn(tm) ==
    /\ timers' = IF video THEN Arm(tm, "settle", SettleDelayMs) ELSE tm

\* startTurn() after the settle delay.  scene: what the camera shows when the
\* reference frame is captured; scene2: when its data URL is captured.
StartTurnSettled ==
    \E scene \in {x \in Scenes(dartsOnBoard) : ~x.small} :
    \E scene2 \in ScenesAgain(scene) :
    /\ ~AwaitsInStart
    /\ timers["settle"][0] > 0
    /\ timers' = Disarm(timers, "settle")
    /\ dartsOnBoard' = scene2.darts
    /\ thrown' = thrown + Throws(dartsOnBoard, scene.darts)
                      + Throws(scene.darts, scene2.darts)
    /\ thrown' <= MaxThrown
    /\ referenceFrame' = captureFrame(scene)
    /\ IF captureFrame(scene) = NoFrame
       THEN /\ callbacks' = <<>>
            /\ referenceOrigin' = "none"
            /\ UNCHANGED <<state, referenceFrameDataURL, previousFrame, detectedDarts,
                           motionState, calibration>>
       ELSE /\ referenceFrameDataURL' =
                  IF captureFrameAsDataURL(scene2) # NoURL
                  THEN captureFrameAsDataURL(scene2) ELSE referenceFrameDataURL
            /\ calibration' =
                  IF captureFrameAsDataURL(scene2) # NoURL /\ calibration # <<>>
                  THEN <<captureFrameAsDataURL(scene2)>> ELSE calibration
            /\ detectedDarts' = <<>>
            /\ motionState' = createMotionState
            /\ previousFrame' = NoFrame
            /\ state' = StartTurnState(currentBoard)
            /\ callbacks' = <<onStateChange(StartTurnState(currentBoard))>>
            /\ referenceOrigin' = "startTurn"
    /\ UNCHANGED <<video, isRunning, boardSmoother, currentBoard, sinceLastDetection,
                   loopVars, calls, sinceAccept, lastAccept, measuredArea,
                   afterReset, labVars>>

\* The page calls startTurn() right after initialize() and start(), when no
\* turn is in progress, and right after reset(), whatever timers are still
\* armed.  Any other call of startTurn(), and every call of stop(), reset()
\* and of the calibration store, counts against MaxCalls.
Quiet ==
    \/ state = "idle" /\ timers = NoTimers
    \/ afterReset = "idle"

\* The page calls startTurn() while no turn is in progress, or after reset().
CallStartTurn ==
    /\ Quiet
    /\ startTurn(timers)
    /\ callbacks' = <<>>
    /\ afterReset' = IF afterReset = "idle" THEN "restarted" ELSE afterReset
    /\ UNCHANGED <<trackerVars, loopVars, envVars, calls, referenceOrigin,
                   sinceAccept, lastAccept, measuredArea, labVars>>

\* The page calls startTurn() in the middle of a turn.
RestartTurn ==
    /\ ~Quiet
    /\ calls < MaxCalls
    /\ calls' = calls + 1
    /\ startTurn(timers)
    /\ callbacks' = <<>>
    /\ afterReset' = IF afterReset = "idle" THEN "restarted" ELSE afterReset
    /\ UNCHANGED <<trackerVars, loopVars, envVars, referenceOrigin, sinceAccept,
                   lastAccept, measuredArea, labVars>>

\* Runs of detectLoop scheduled or suspended.
Loops == Cardinality(rafPending) + Len(inflight)

\* The timer armed by checkRemoval calls startTurn().
AutoStartTurn ==
    /\ ~AwaitsInStart
    /\ timers["autoStart"][0] > 0
    /\ startTurn(Disarm(timers, "autoStart"))
    /\ callbacks' = <<>>
    /\ UNCHANGED <<trackerVars, loopVars, envVars, calls, ghostVars, labVars>>

\* The timer armed with the third dart.
ToWaitingRemoval ==
    /\ ~AwaitsInStart
    /\ timers["removal"][0] > 0
    /\ timers' = Disarm(timers, "removal")
    /\ state' = "waiting-removal"
    /\ callbacks' = <<onStateChange("waiting-removal")>>
    /\ UNCHANGED <<referenceFrame, referenceFrameDataURL, previousFrame, detectedDarts,
                   video, isRunning, boardSmoother, currentBoard, motionState,
                   sinceLastDetection, calibration, loopVars, envVars, calls, ghostVars,
                   labVars>>

\* start(): detectLoop runs in the call up to its first await.
Start ==
    /\ Cardinality(rafPending) + Len(inflight) < MaxLoops
    /\ UNCHANGED <<calls, labVars>>
    /\ IF isRunning
       THEN /\ callbacks' = <<>>
            /\ UNCHANGED <<trackerVars, loopVars, timers, ghostVars>>
            /\ UNCHANGED envVars
       ELSE /\ calls <= MaxCalls
            /\ isRunning' = TRUE
            /\ detectLoop(rafPending, detectionInterval, TRUE)

\* start() while no loop iteration is scheduled or suspended.
StartAlone == rafPending = {} /\ inflight = <<>> /\ Start

\* stop(): the handle and the callbacks left after it.
stop ==
    /\ isRunning' = FALSE
    /\ rafPending' = IF detectionInterval \in rafPending
                     THEN Others(rafPending, detectionInterval) ELSE rafPending
    /\ detectionInterval' = 0

\* A call made by the caller of start() before it returns interrupts nothing
\* that start() has not interrupted already: it is followed beyond MaxCalls,
\* and the loop is not started again after it.
Interrupts == ~AwaitsInStart

Stop ==
    /\ Interrupts => calls < MaxCalls
    /\ calls <= MaxCalls
    /\ calls' = calls + 1
    /\ stop
    /\ callbacks' = <<>>
    /\ UNCHANGED <<state, referenceFrame, referenceFrameDataURL, previousFrame,
                   detectedDarts, video, boardSmoother, currentBoard, motionState,
                   sinceLastDetection, calibration, inflight, timers, envVars,
                   ghostVars, labVars>>

\* reset()
Reset ==
    /\ Interrupts => calls < MaxCalls
    /\ calls <= MaxCalls
    /\ calls' = calls + 1
    /\ stop
    /\ state' = "idle"
    /\ detectedDarts' = <<>>
    /\ referenceFrame' = NoFrame
    /\ previousFrame' = NoFrame
    /\ currentBoard' = FALSE
    /\ motionState' = createMotionState
    /\ boardSmoother' = smootherReset(boardSmoother)
    /\ sinceLastDetection' = DETECTION_DEBOUNCE_MS
    /\ callbacks' = <<onStateChange("idle")>>
    /\ referenceOrigin' = "none"
    /\ afterReset' = "idle"
    /\ UNCHANGED <<referenceFrameDataURL, video, calibration, inflight, timers,
                   envVars, sinceAccept, lastAccept, measuredArea, labVars>>

\* reset() called by the caller of start() before it returns.
ResetInStart == AwaitsInStart /\ Reset

\* ------------------------------------------------- the calibration store
\* saveCalibration(data): the page stores a calibration, without a reference
\* frame (getDefaultCalibration) or with the one it has captured.
SaveCalibration ==
    \E url \in {NoURL, DataURL} :
        /\ ~AwaitsInStart
        /\ calls < MaxCalls
        /\ calls' = calls + 1
        /\ calibration' = <<url>>
        /\ callbacks' = <<>>
        /\ UNCHANGED <<state, referenceFrame, referenceFrameDataURL, previousFrame,
                       detectedDarts, video, isRunning, boardSmoother, currentBoard,
                       motionState, sinceLastDetection, loopVars, timers, envVars,
                       ghostVars, labVars>>

\* clearCalibration(): the stored calibration is removed.
ClearCalibration ==
    /\ ~AwaitsInStart
    /\ calls < MaxCalls
    /\ calls' = calls + 1
    /\ calibration' = <<>>
    /\ callbacks' = <<>>
    /\ UNCHANGED <<state, referenceFrame, referenceFrameDataURL, previousFrame,
                   detectedDarts, video, isRunning, boardSmoother, currentBoard,
                   motionState, sinceLastDetection, loopVars, timers, envVars,
                   ghostVars, labVars>>

\* ------------------------------------------------------------ environment
\* Time passes.  A timer that is due may fire late, never early.
Tick ==
    /\ ~AwaitsInStart
    /\ timers' = Aged(timers, TickMs)
    /\ sinceLastDetection' = Elapsed(sinceLastDetection, TickMs)
    /\ sinceAccept' = Elapsed(sinceAccept, TickMs)
    /\ callbacks' = <<>>
    /\ UNCHANGED <<state, referenceFrame, referenceFrameDataURL, previousFrame,
                   detectedDarts, video, isRunning, boardSmoother, currentBoard,
                   motionState, calibration, loopVars, envVars, calls,
                   referenceOrigin, lastAccept, measuredArea, afterReset, labVars>>

\* The steps of a turn once the loop is started.
TurnSteps ==
    \/ Initialize
    \/ CallStartTurn
    \/ StartTurnSettled
    \/ AutoStartTurn
    \/ ToWaitingRemoval
    \/ RunCallback
    \/ ResumeRemoval
    \/ Tick

NextTurn ==
    \/ TurnSteps
    \/ Start

\* A turn and one call of startTurn() in the middle of it.
NextRestart ==
    \/ NextTurn
    \/ RestartTurn

\* A turn and one call of stop(); start() after it returns to its caller with
\* the loop iteration suspended, and the caller may call stop() or reset().
NextStop ==
    \/ NextTurn
    \/ Stop
    \/ ResumeLoop
    \/ ResetInStart

\* A turn and one call of reset(); the loop is started when no iteration of
\* an earlier run is left.
NextReset ==
    \/ TurnSteps
    \/ StartAlone
    \/ Reset

\* A turn and one write of the calibration store.
NextStore ==
    \/ NextTurn
    \/ SaveCalibration
    \/ ClearCalibration

Next ==
    \/ NextTurn
    \/ RestartTurn
    \/ Stop
    \/ ResumeLoop
    \/ Reset
    \/ SaveCalibration
    \/ ClearCalibration

SpecTurn == Init /\ [][NextTurn]_vars
SpecRestart == Init /\ [][NextRestart]_vars
SpecStop == Init /\ [][NextStop]_vars
SpecReset == Init /\ [][NextReset]_vars
SpecStore == Init /\ [][NextStore]_vars
\* A turn in which time passes, every due timer fires, a suspended iteration
\* resumes, and the running loop sees the board again and again.
FairTurn ==
    /\ WF_vars(Tick)
    /\ WF_vars(AutoStartTurn)
    /\ WF_vars(StartTurnSettled)
    /\ WF_vars(ToWaitingRemoval)
    /\ WF_vars(ResumeRemoval)
    /\ SF_vars(RunCallback /\ CalledWith(onBoardDetected(TRUE))')
SpecFair == SpecTurn /\ FairTurn

\* ------------------------------------------- the motion stabilizer, alone
\* The changed areas fed to it: none, small, at the threshold, just above it,
\* and a moving hand.
Areas == {0, MOTION_THRESHOLD \div 2, MOTION_THRESHOLD, MOTION_THRESHOLD + 1, MovingPixels}

\* One call of updateMotionState on a frame whose changeArea is area.
FeedFrame ==
    \E area \in Areas :
        /\ area <= MOTION_THRESHOLD => quietCalls < MaxFeeds
        /\ stabilizer' = nextMotionState(stabilizer, motionOfArea(area))
        /\ quietCalls' = IF area > MOTION_THRESHOLD THEN 0 ELSE quietCalls + 1
        /\ sawMotion' = (sawMotion \/ area > MOTION_THRESHOLD)
        /\ UNCHANGED <<allTrackerVars, mapperVars, boardVars, candidateVars, colorVars, diffVars>>

SpecStabilizer == Init /\ [][FeedFrame]_vars

\* ------------------------------------------------ the colour test, alone
\* Channel values: among the pixels are some whose hue or saturation is on a
\* bound as a fraction and beside it as a double, (0, 46, 69), (36, 33, 32),
\* (123, 123, 153) and (255, 225, 225).
Channels == {0, 15, 23, 32, 33, 36, 46, 69, 123, 153, 225, 255}
Pixels == Channels \X Channels \X Channels

InitColor ==
    /\ TrackerInit /\ StabilizerInit /\ DiffIdle /\ CandidateIdle /\ BoardIdle /\ MapperIdle
    /\ pixel \in Pixels
    /\ masks = <<>>

\* The mask bits the board detector sets for one pixel, with the pixel's HSV.
ClassifyPixel ==
    /\ masks = <<>>
    /\ masks' = <<[hsv |-> rgbToHsv(pixel[1], pixel[2], pixel[3]),
                   blue |-> isColorPixel(pixel[1], pixel[2], pixel[3], BLUE_HSV),
                   white |-> isColorPixel(pixel[1], pixel[2], pixel[3], WHITE_HSV),
                   red |-> isColorPixel(pixel[1], pixel[2], pixel[3], RED_HSV)]>>
    /\ UNCHANGED <<allTrackerVars, mapperVars, boardVars, candidateVars, stabilizerVars, diffVars, pixel>>

SpecColor == InitColor /\ [][ClassifyPixel]_vars

\* ------------------------------------------- frame differencing, alone
\* Region sizes: below MIN_CONTOUR_AREA, at it, a dart, at MAX_CONTOUR_AREA
\* and above it.
RegionSizes == {MIN_CONTOUR_AREA - 20, MIN_CONTOUR_AREA, DartPixels,
                MAX_CONTOUR_AREA, MAX_CONTOUR_AREA + 1}
Masks == UNION {[1..n -> RegionSizes] : n \in 0..MaxRegions}

InitDiff ==
    /\ TrackerInit /\ StabilizerInit /\ ColorIdle /\ CandidateIdle /\ BoardIdle /\ MapperIdle
    /\ regions \in Masks
    /\ diffResult = <<>>

\* detectFrameDifference on two frames whose cleaned mask has these regions.
DiffFrames ==
    /\ diffResult = <<>>
    /\ diffResult' = <<frameDiffResult(regions)>>
    /\ UNCHANGED <<allTrackerVars, mapperVars, boardVars, candidateVars, stabilizerVars, colorVars, regions>>

SpecDiff == InitDiff /\ [][DiffFrames]_vars

\* ------------------------------------------------ dart validation, alone
SMART_MAX_ASPECT_RATIO == 100
SmartAcceptPct == 40
SmartMarginPct == 110

\* The features measured on the largest contour: each set has values on both
\* sides of, and on, every bound the detectors test.
ContourAreas == {MIN_DART_AREA - 1, MIN_DART_AREA, DartPixels,
                 MAX_DART_AREA, MAX_DART_AREA + 1}
AspectRatios == {MIN_ASPECT_RATIO - 1, MIN_ASPECT_RATIO, 30,
                 SMART_MAX_ASPECT_RATIO, SMART_MAX_ASPECT_RATIO + 1,
                 MAX_ASPECT_RATIO, MAX_ASPECT_RATIO + 1}
CenterDistances == {50, 80, BoundsMarginPct, BoundsMarginPct + 1}
TipDistances == {50, SmartMarginPct, SmartMarginPct + 1}
Contrasts == {0, MIN_CONTRAST - 1, MIN_CONTRAST, 255}
Candidates == [area : ContourAreas, aspectRatio : AspectRatios,
               centerDist : CenterDistances, tipDist : TipDistances,
               contrast : Contrasts, hasEdge : BOOLEAN]

\* validateDartCandidate of the plain validator.
validateDartCandidatePlain(c) ==
    IF c.area < MIN_DART_AREA \/ c.area > MAX_DART_AREA THEN Invalid
    ELSE IF c.centerDist > BoundsMarginPct THEN Invalid
    ELSE IF c.aspectRatio < 20 \/ c.aspectRatio > 150 THEN Invalid
    ELSE [isValid |-> TRUE,
          confidence |-> 50
              + (IF c.aspectRatio >= 30 /\ c.aspectRatio <= 100 THEN 30 ELSE 0)
              + (IF c.centerDist < 80 THEN 20 ELSE 0)]

\* detectNewDart of the plain validator.
candidateConfidencePlain(c) == validateDartCandidatePlain(c).confidence

rawContrastScore(contrast) == contrast

\* smartDetectDart: Math.min(0.3, contrast / 100)
smartContrastScore(contrast) == Min(30, contrast)

\* smartDetectDart: the confidence summed over the four features.
smartConfidence(c) ==
    IF c.area < MIN_CONTOUR_AREA THEN 0
    ELSE (IF c.aspectRatio >= MIN_ASPECT_RATIO
             /\ c.aspectRatio <= SMART_MAX_ASPECT_RATIO THEN 30 ELSE 0)
         + (IF c.contrast >= MIN_CONTRAST
            THEN smartContrastScore(c.contrast) ELSE 0)
         + (IF c.hasEdge THEN 20 ELSE 0)
         + (IF c.tipDist <= SmartMarginPct THEN 20 ELSE 0)

\* smartDetectDart: detected
smartDetected(confidence) == confidence >= SmartAcceptPct

\* The verdicts of the detectors on a contour with the features c.
Verdict(c) ==
    [isValid |-> validateDartCandidate(c).isValid,
     confidence |-> candidateConfidence(c),
     accepted |-> /\ validateDartCandidate(c).isValid
                  /\ ConfidentEnough(candidateConfidence(c)),
     plainConfidence |-> candidateConfidencePlain(c),
     plainAccepted |-> /\ validateDartCandidatePlain(c).isValid
                       /\ ConfidentEnough(candidateConfidencePlain(c)),
     emitted |-> IF /\ validateDartCandidate(c).isValid
                    /\ ConfidentEnough(candidateConfidence(c))
                 THEN <<candidateConfidence(c)>> ELSE <<>>,
     smartConfidence |-> smartConfidence(c),
     smartDetected |-> smartDetected(smartConfidence(c))]

\* One stabilized frame whose largest contour has the features c, given to
\* detectNewDart of either validator followed by the tracker's acceptance
\* test, and to smartDetectDart.
ValidateCandidate ==
    /\ verdict = <<>>
    /\ \E c \in Candidates :
           /\ dartCandidate' = <<c>>
           /\ verdict' = <<Verdict(c)>>
    /\ UNCHANGED <<allTrackerVars, mapperVars, boardVars, stabilizerVars,
                   colorVars, diffVars>>

SpecCandidate == Init /\ [][ValidateCandidate]_vars

\* ------------------------------------------------ board confidence, alone
\* Board confidences are in thousandths, the fit error in hundredths of the
\* radius.
MIN_BOARD_RADIUS == 100
MAX_BOARD_RADIUS == 2000
MIN_CONFIDENCE == 500
MinSegments == 5

\* The outcome of a call that threw RangeError: push(...c) throws it when the
\* contour c has more points than the engine takes as the arguments of one
\* call, and the deeper the call, the fewer it takes.
RangeError == -1

\* What the detector that segments blue, white and red measures on a frame:
\* the numbers of blue, white and red contours, the mean distance of their
\* points from the fitted circle, its radius, and the contour that is too
\* large for push(...c): none, one that is too large in every call, or one
\* that is too large only in the call nested inside calculateConfidence.
AllInView ==
    [blue |-> 20, white |-> 17, red |-> 5, fitError |-> 0,
     radius |-> MIN_BOARD_RADIUS, large |-> "none"]

\* The board with everything in view, and the frames that lack one thing or
\* two: the red ring, a good fit, both, the white segments, the white and most
\* of the blue segments, a radius within the bounds, a contour of a size that
\* push(...c) takes.
BoardFrames ==
    {AllInView,
     [AllInView EXCEPT !.red = 0],
     [AllInView EXCEPT !.fitError = 60],
     [AllInView EXCEPT !.red = 0, !.fitError = 60],
     [AllInView EXCEPT !.white = 0],
     [AllInView EXCEPT !.white = 0, !.blue = 3],
     [AllInView EXCEPT !.radius = MIN_BOARD_RADIUS - 1],
     [AllInView EXCEPT !.radius = MAX_BOARD_RADIUS + 1]}
    \cup {[AllInView EXCEPT !.large = l] :
             l \in {"blue", "white", "red", "blueNested", "whiteNested"}}

\* What the detector that segments blue only measures on a frame.
BlueFrames ==
    {[blue |-> 20, fitError |-> 0, radius |-> MIN_BOARD_RADIUS, large |-> "none"],
     [blue |-> 20, fitError |-> 60, radius |-> MIN_BOARD_RADIUS, large |-> "none"],
     [blue |-> 20, fitError |-> 60, radius |-> MAX_BOARD_RADIUS + 1, large |-> "none"],
     [blue |-> 6, fitError |-> 60, radius |-> MIN_BOARD_RADIUS, large |-> "none"],
     [blue |-> 3, fitError |-> 0, radius |-> MIN_BOARD_RADIUS, large |-> "none"],
     [blue |-> 20, fitError |-> 0, radius |-> MIN_BOARD_RADIUS, large |-> "blue"]}

\* Math.max(0, 1 - normalizedError * 2)
fitScore(fitError) == IF 1000 - fitError * 20 > 0 THEN 1000 - fitError * 20 ELSE 0

\* circle.radius >= MIN_BOARD_RADIUS && circle.radius <= MAX_BOARD_RADIUS ? 1.0 : 0.5
sizeScore(radius) ==
    IF radius >= MIN_BOARD_RADIUS /\ radius <= MAX_BOARD_RADIUS THEN 1000 ELSE 500

\* calculateConfidence of the detector that segments blue, white and red:
\* it collects the points of the blue and white contours with push(...c).
calculateConfidence(f) ==
    IF f.large \in {"blue", "white", "blueNested", "whiteNested"} THEN RangeError
    ELSE Min(1000,
             (Min(1000, ((f.blue + f.white) * 1000) \div 20) * 3) \div 10
             + (IF f.red > 0 THEN Min(300, f.red * 100) ELSE 0)
             + (IF f.blue + f.white > 0 THEN (fitScore(f.fitError) * 3) \div 10 ELSE 0)
             + sizeScore(f.radius) \div 10)

\* calculateConfidence of the detector that segments blue only, which walks
\* the contours without push(...c).
calculateConfidenceBlue(f) ==
    IF f.blue = 0 THEN 0
    ELSE Min(1000,
             (Min(1000, (f.blue * 1000) \div 15) * 4) \div 10
             + (fitScore(f.fitError) * 4) \div 10
             + (sizeScore(f.radius) * 2) \div 10)

\* detectBoard: <<>> for null, <<RangeError>> when it threw, else <<the
\* detection's confidence>>.  It collects the points of the blue, white and
\* red contours with push(...c) before it fits the circle.
detectBoard(f) ==
    IF f.blue + f.white < MinSegments THEN <<>>
    ELSE IF f.large \in {"blue", "white", "red"} THEN <<RangeError>>
    ELSE IF f.radius < MIN_BOARD_RADIUS \/ f.radius > MAX_BOARD_RADIUS THEN <<>>
    ELSE IF calculateConfidence(f) = RangeError THEN <<RangeError>>
    ELSE IF calculateConfidence(f) < MIN_CONFIDENCE THEN <<>>
    ELSE <<calculateConfidence(f)>>

\* detectBoard of the detector that segments blue only.
detectBoardBlue(f) ==
    IF f.blue < MinSegments THEN <<>>
    ELSE IF f.large = "blue" THEN <<RangeError>>
    ELSE IF f.radius < MIN_BOARD_RADIUS \/ f.radius > MAX_BOARD_RADIUS THEN <<>>
    ELSE IF calculateConfidenceBlue(f) < MIN_CONFIDENCE THEN <<>>
    ELSE <<calculateConfidenceBlue(f)>>

\* BoardDetectorSmoother.addDetection on the detections themselves.
pushDetection(history, detection) ==
    IF detection = <<>> THEN history
    ELSE IF Len(history) + 1 > maxHistory THEN Tail(history) \o detection
    ELSE history \o detection

\* BoardDetectorSmoother.getSmoothed: <<>> for null, else the confidence
\* sumConf / n as the pair <<sumConf, n>>.
getSmoothed(history) ==
    IF Len(history) = 0 THEN <<>>
    ELSE LET sumConf[i \in 0..Len(history)] ==
                 IF i = 0 THEN 0 ELSE sumConf[i - 1] + history[i]
         IN  <<sumConf[Len(history)], Len(history)>>

\* BoardDetectorSmoother.reset
resetDetections(history) == <<>>

\* The largest changed regions a stable frame may show: one that is too
\* small, a dart of the lowest confidence, one at the acceptance threshold,
\* one with every feature at its best, and one whose features the smart
\* detector alone scores.
FrameCandidates ==
    {c \in Candidates :
        \/ /\ c.area = MIN_DART_AREA - 1 /\ c.aspectRatio = 30 /\ c.centerDist = 50
           /\ c.tipDist = 50 /\ c.contrast = 255 /\ c.hasEdge
        \/ /\ c.area = DartPixels /\ c.aspectRatio = MIN_ASPECT_RATIO
           /\ c.centerDist = BoundsMarginPct /\ c.tipDist = SmartMarginPct + 1
           /\ c.contrast = 0 /\ ~c.hasEdge
        \/ /\ c.area = DartPixels /\ c.aspectRatio = 30
           /\ c.centerDist = BoundsMarginPct /\ c.tipDist = SmartMarginPct
           /\ c.contrast = 0 /\ ~c.hasEdge
        \/ /\ c.area = DartPixels /\ c.aspectRatio = 30 /\ c.centerDist = 50
           /\ c.tipDist = 50 /\ c.contrast = 255 /\ c.hasEdge
        \/ /\ c.area = DartPixels /\ c.aspectRatio = MAX_ASPECT_RATIO + 1
           /\ c.centerDist = BoundsMarginPct + 1 /\ c.tipDist = 50
           /\ c.contrast = MIN_CONTRAST /\ c.hasEdge}

\* The tracker built with either module.
InitConfidence ==
    /\ TrackerInit /\ StabilizerInit /\ ColorIdle /\ DiffIdle /\ CandidateIdle
    /\ MapperIdle
    /\ boardDetector \in BoardDetectors
    /\ detections = <<>>
    /\ boardResult = <<>>

\* What the tracker's detector measures on a frame.
FramesOf(detector) == IF detector = "blue-only" THEN BlueFrames ELSE BoardFrames

\* calculateConfidence and detectBoard of the tracker's detector.
confidenceBy(detector, f) ==
    IF detector = "blue-only" THEN calculateConfidenceBlue(f)
    ELSE calculateConfidence(f)
detectBoardBy(detector, f) ==
    IF detector = "blue-only" THEN detectBoardBlue(f) ELSE detectBoard(f)

\* One frame of the loop.  f: what the tracker's board detector measures on
\* it; seen: the largest changed region, if the frame is a stable one of a
\* turn.  A detection goes through the smoother and the dart detectors are
\* reached; without one (detectBoard returned null) the loop reports the
\* board lost and leaves the smoother and the dart detectors alone, and when
\* detectBoard threw, the loop's catch block ends the iteration.
DetectFrame ==
    \E f \in FramesOf(boardDetector) :
    \E seen \in {<<>>} \cup {<<c>> : c \in FrameCandidates} :
    \E boardDetection \in {detectBoardBy(boardDetector, f)} :
    \E found \in {boardDetection # <<>> /\ boardDetection # <<RangeError>>} :
        /\ detections' = IF found THEN pushDetection(detections, boardDetection)
                         ELSE detections
        /\ boardResult' =
             <<[score |-> confidenceBy(boardDetector, f),
                detection |-> boardDetection,
                smoothed |-> IF found
                             THEN getSmoothed(pushDetection(detections, boardDetection))
                             ELSE <<>>]>>
        /\ dartCandidate' = IF found THEN seen ELSE <<>>
        /\ verdict' = IF found /\ seen # <<>> THEN <<Verdict(seen[1])>> ELSE <<>>
        /\ UNCHANGED <<allTrackerVars, mapperVars, stabilizerVars, colorVars,
                       diffVars, boardDetector>>

\* reset() of the tracker empties the smoother.
ResetSmoother ==
    /\ detections # <<>>
    /\ detections' = resetDetections(detections)
    /\ UNCHANGED <<boardDetector, boardResult, allTrackerVars, mapperVars,
                   stabilizerVars, colorVars, diffVars, candidateVars>>

\* The frames of the loop, with reset() called between them.
NextConfidence ==
    \/ DetectFrame
    \/ ResetSmoother

SpecConfidence == InitConfidence /\ [][NextConfidence]_vars

\* ------------------------------------------------ the segment mapper, alone
\* A normalized point is given in thousandths of the board radius: the point
\* [x |-> 390, y |-> 432] is the pair of doubles that the literals 0.39 and
\* 0.432 denote.  The distance is computed on the doubles, operation by
\* operation, and compared with the doubles of the ring boundaries.  The
\* angle is represented by the largest multiple of AngleStep degrees that is
\* not above it: the wedges begin at odd multiples of 9 degrees and include
\* their lower bound, and no point of the grid is closer to such a direction,
\* without lying in it, than many times the rounding error of Math.atan2.
SEGMENT_ORDER == <<20, 1, 18, 4, 13, 6, 10, 15, 2, 17, 3, 19, 7, 16, 8, 11, 14, 9, 12, 5>>
RING_BOUNDARIES ==
    [bullseye |-> [inner |-> 0, outer |-> 37],
     bull |-> [inner |-> 37, outer |-> 93],
     innerSingle |-> [inner |-> 93, outer |-> 582],
     triple |-> [inner |-> 582, outer |-> 629],
     outerSingle |-> [inner |-> 629, outer |-> 953],
     double |-> [inner |-> 953, outer |-> 1000]]
AngleStep == 9
WedgeDegrees == 18
SineScale == 1000000

\* SineScale * sin(0), sin(9), ..., sin(90 degrees).
SineTable == <<0, 156434, 309017, 453990, 587785, 707107, 809017, 891007,
               951057, 987688, 1000000>>

sinDeg(a) ==
    LET b == a % 360
    IN  IF b <= 90 THEN SineTable[b \div AngleStep + 1]
        ELSE IF b <= 180 THEN SineTable[(180 - b) \div AngleStep + 1]
        ELSE IF b <= 270 THEN 0 - SineTable[(b - 180) \div AngleStep + 1]
        ELSE 0 - SineTable[(360 - b) \div AngleStep + 1]

Truncate(n) == IF n >= 0 THEN n \div SineScale ELSE 0 - ((0 - n) \div SineScale)

\* The point at the angle a (0 = up, clockwise) and the distance d, on the
\* grid of thousandths: toPolar's convention, y growing downwards.
polarPoint(a, d) ==
    [x |-> Truncate(d * sinDeg(a)), y |-> 0 - Truncate(d * sinDeg(a + 90))]

Angles == {AngleStep * i : i \in 0..(360 \div AngleStep - 1)}

\* The double that a decimal literal of k thousandths denotes.
Thousandths(k) == flDiv(Double(k), Double(1000))

\* Math.sqrt(point.x * point.x + point.y * point.y)
distanceOf(X, Y) == flSqrt(flAdd(flMul(X, X), flMul(Y, Y)))

\* Math.atan2(x, -y) * (180 / Math.PI), brought into [0, 360) and rounded
\* down: the step a with sin(angle - a) >= 0 and sin(angle - (a + 9)) < 0.
\* At the origin atan2(0, -0) is pi.
AngleOf(x, y) ==
    IF x = 0 /\ y = 0 THEN 180
    ELSE CHOOSE a \in Angles :
            /\ x * sinDeg(a + 90) + y * sinDeg(a) >= 0
            /\ x * sinDeg(a + AngleStep + 90) + y * sinDeg(a + AngleStep) < 0

toPolarMirrored(p) ==
    [angle |-> Double(AngleOf(0 - p.x, p.y)),
     distance |-> distanceOf(Thousandths(p.x), Thousandths(p.y))]

toPolar(p) ==
    [angle |-> Double(AngleOf(p.x, p.y)),
     distance |-> distanceOf(Thousandths(p.x), Thousandths(p.y))]

\* getSegmentFromAngle after "adjustedAngle = angle + 9".
segmentOfAdjusted(adjustedAngle) ==
    SEGMENT_ORDER[flFloor(flDiv(IF ~flLess(adjustedAngle, Double(360))
                                THEN flSub(adjustedAngle, Double(360))
                                ELSE adjustedAngle,
                                Double(WedgeDegrees))) + 1]

getSegmentFromAngle(angle) == segmentOfAdjusted(flAdd(angle, Double(9)))

stillDouble(normalizedDistance) ==
    [ring |-> "double", multiplier |-> 2, isBull |-> FALSE]

\* getRingFromDistance: beyond the double ring.
beyondDouble(normalizedDistance) ==
    [ring |-> "miss", multiplier |-> 1, isBull |-> FALSE]

\* normalizedDistance <= boundary
upTo(normalizedDistance, boundary) == ~flLess(Thousandths(boundary), normalizedDistance)

getRingFromDistance(normalizedDistance) ==
    IF upTo(normalizedDistance, RING_BOUNDARIES.bullseye.outer)
    THEN [ring |-> "bullseye", multiplier |-> 1, isBull |-> TRUE]
    ELSE IF upTo(normalizedDistance, RING_BOUNDARIES.bull.outer)
    THEN [ring |-> "bull", multiplier |-> 1, isBull |-> TRUE]
    ELSE IF upTo(normalizedDistance, RING_BOUNDARIES.triple.inner)
    THEN [ring |-> "single", multiplier |-> 1, isBull |-> FALSE]
    ELSE IF upTo(normalizedDistance, RING_BOUNDARIES.triple.outer)
    THEN [ring |-> "triple", multiplier |-> 3, isBull |-> FALSE]
    ELSE IF upTo(normalizedDistance, RING_BOUNDARIES.double.inner)
    THEN [ring |-> "single", multiplier |-> 1, isBull |-> FALSE]
    ELSE IF upTo(normalizedDistance, RING_BOUNDARIES.double.outer)
    THEN [ring |-> "double", multiplier |-> 2, isBull |-> FALSE]
    ELSE beyondDouble(normalizedDistance)

facePoints(segment, multiplier) == segment

\* mapToSegment: points of a regular segment.
segmentPoints(segment, multiplier) == segment * multiplier

\* mapToSegment after toPolar and getRingFromDistance.
mapRing(polar, ringInfo, normalizedPoint, dartPosition, confidence) ==
    IF ringInfo.ring = "miss"
    THEN [segment |-> 0, multiplier |-> 1, points |-> 0,
          confidence |-> confidence, dartPosition |-> dartPosition,
          normalizedPosition |-> normalizedPoint]
    ELSE IF ringInfo.isBull
    THEN [segment |-> IF ringInfo.ring = "bullseye" THEN 50 ELSE 25,
          multiplier |-> 1,
          points |-> IF ringInfo.ring = "bullseye" THEN 50 ELSE 25,
          confidence |-> confidence, dartPosition |-> dartPosition,
          normalizedPosition |-> normalizedPoint]
    ELSE [segment |-> getSegmentFromAngle(polar.angle),
          multiplier |-> ringInfo.multiplier,
          points |-> segmentPoints(getSegmentFromAngle(polar.angle), ringInfo.multiplier),
          confidence |-> confidence, dartPosition |-> dartPosition,
          normalizedPosition |-> normalizedPoint]

mapPolar(polar, normalizedPoint, dartPosition, confidence) ==
    mapRing(polar, getRingFromDistance(polar.distance), normalizedPoint,
            dartPosition, confidence)

mapToSegment(normalizedPoint, dartPosition, confidence) ==
    mapPolar(toPolar(normalizedPoint), normalizedPoint, dartPosition, confidence)

validateDetection(result) ==
    IF result.segment < 0
       \/ (result.segment > 20 /\ result.segment # 25 /\ result.segment # 50)
    THEN FALSE
    ELSE IF result.multiplier < 1 \/ result.multiplier > 3 THEN FALSE
    ELSE IF /\ result.segment <= 20 /\ result.segment > 0
            /\ result.points # result.segment * result.multiplier
    THEN FALSE
    ELSE IF (result.segment = 25 \/ result.segment = 50) /\ result.multiplier # 1
    THEN FALSE
    ELSE TRUE

\* The middle of a ring.
midDistance(ring) == (ring.inner + ring.outer) \div 2

\* Distances on, next to and between the ring boundaries, and off the board.
SampleDistances ==
    {0, 1050, 1200, 1500, 2000}
    \cup {midDistance(RING_BOUNDARIES[r]) : r \in DOMAIN RING_BOUNDARIES}
    \cup UNION {{RING_BOUNDARIES[r].outer - 1, RING_BOUNDARIES[r].outer,
                 RING_BOUNDARIES[r].outer + 1}
                    : r \in DOMAIN RING_BOUNDARIES}
    \cup {RING_BOUNDARIES.double.outer + 2}

\* The points of the grid that lie on a ring boundary, one of each family of
\* mirror images.
OnBoundary ==
    {<<0, RING_BOUNDARIES[r].outer>> : r \in DOMAIN RING_BOUNDARIES}
    \cup
    {<<12, 35>>, <<390, 432>>, <<100, 621>>, <<204, 595>>, <<296, 555>>,
     <<429, 460>>, <<615, 728>>, <<280, 960>>, <<352, 936>>, <<600, 800>>}

\* The mirror images of the point <<a, b>>.
Images(q) ==
    {[x |-> sx * q[1], y |-> sy * q[2]] : sx \in {-1, 1}, sy \in {-1, 1}}
    \cup {[x |-> sx * q[2], y |-> sy * q[1]] : sx \in {-1, 1}, sy \in {-1, 1}}

\* Points on the centre line of every wedge and along every wedge boundary,
\* the points on the ring boundaries and their neighbours inside and outside.
Points ==
    {polarPoint(a, d) : a \in Angles, d \in SampleDistances}
    \cup UNION {Images(<<q[1] + dx, q[2]>>) : q \in OnBoundary, dx \in {-1, 0, 1}}

\* Where the dart is in the video, in pixels.
DartPositions == {[x |-> 0, y |-> 0], [x |-> 320, y |-> 240]}

\* mapToSegment on one point, step by step, and validateDetection on its
\* result.
MapPoint ==
    /\ mapped = <<>> /\ wedge = <<>>
    /\ \E p \in Points :
       \E polar \in {toPolar(p)} :
       \E ringInfo \in {getRingFromDistance(polar.distance)} :
       \E dartPosition \in DartPositions, confidence \in Confidences :
       \E result \in {mapRing(polar, ringInfo, p, dartPosition, confidence)} :
           /\ point' = <<p>>
           /\ mapped' = <<[polar |-> polar,
                           result |-> result,
                           valid |-> validateDetection(result)]>>
    /\ UNCHANGED <<allTrackerVars, stabilizerVars, colorVars, diffVars,
                   candidateVars, boardVars, wedge>>

\* The doubles next below and next above the double x > 0, x not a power of
\* two for the one below.
Before(x) == [x EXCEPT !.m = BigSub(x.m, <<1>>)]
After(x) == [x EXCEPT !.m = BigAdd(x.m, <<1>>)]

\* Angles toPolar can return on and next below a wedge boundary: every
\* multiple of 9 degrees, and the doubles next below 9, 351 and 360.
BoundaryAngles ==
    {Double(a) : a \in Angles} \cup {Before(Double(a)) : a \in {9, 351, 360}}

\* Distances toPolar can return on and next above a ring boundary.
BoundaryDistances ==
    UNION {{Thousandths(RING_BOUNDARIES[r].outer),
            After(Thousandths(RING_BOUNDARIES[r].outer))}
               : r \in DOMAIN RING_BOUNDARIES}

\* getRingFromDistance and getSegmentFromAngle on one polar position that
\* toPolar returned.
MapPolar ==
    /\ mapped = <<>> /\ wedge = <<>>
    /\ \E angle \in BoundaryAngles, distance \in BoundaryDistances :
           wedge' = <<[polar |-> [angle |-> angle, distance |-> distance],
                       ringInfo |-> getRingFromDistance(distance),
                       segment |-> getSegmentFromAngle(angle)]>>
    /\ UNCHANGED <<allTrackerVars, stabilizerVars, colorVars, diffVars,
                   candidateVars, boardVars, point, mapped>>

NextMapper ==
    \/ MapPoint
    \/ MapPolar

SpecMapper == Init /\ [][NextMapper]_vars

\* The angle at the centre of the wedge of segment s, and the middle of the
\* rings that score with the multiplier m.
centreAngle(s) ==
    WedgeDegrees * ((CHOOSE i \in DOMAIN SEGMENT_ORDER : SEGMENT_ORDER[i] = s) - 1)
MidDistances(m) ==
    IF m = 3 THEN {midDistance(RING_BOUNDARIES.triple)}
    ELSE IF m = 2 THEN {midDistance(RING_BOUNDARIES.double)}
    ELSE {midDistance(RING_BOUNDARIES.innerSingle),
          midDistance(RING_BOUNDARIES.outerSingle)}

\* The point lies in the triple ring: its distance is in (0.582, 0.629].
InTripleRing(p) ==
    /\ p.x * p.x + p.y * p.y
           > RING_BOUNDARIES.triple.inner * RING_BOUNDARIES.triple.inner
    /\ p.x * p.x + p.y * p.y
           <= RING_BOUNDARIES.triple.outer * RING_BOUNDARIES.triple.outer

\* The distance, a double, is in (0.582, 0.629].
InTriple(distance) ==
    /\ flLess(Thousandths(RING_BOUNDARIES.triple.inner), distance)
    /\ ~flLess(Thousandths(RING_BOUNDARIES.triple.outer), distance)

\* The point lies further than 1.0 from the centre.
OffBoard(p) ==
    p.x * p.x + p.y * p.y
        > RING_BOUNDARIES.double.outer * RING_BOUNDARIES.double.outer
Spec == Init /\ [][Next]_vars
\* The same with stop() and reset(), under the fairness of a running turn.
SpecResetFair == SpecReset /\ FairTurn
\* The same with startTurn() called in the middle of a turn.
SpecRestartFair == SpecRestart /\ FairTurn

TypeOK ==
    /\ state \in TrackerStates
    /\ isRunning \in BOOLEAN
    /\ rafPending = 1..Cardinality(rafPending)
    /\ detectionInterval \in {0, StaleHandle, Cardinality(rafPending)}
    /\ motionState.stabilityFrames \in 0..MaxStabilityFrames
    /\ dartsOnBoard \in 0..MaxOnBoard
    /\ thrown \in 0..MaxThrown
    /\ calls \in 0..(MaxCalls + 1)
    /\ Len(detectedDarts) <= MaxDarts
    /\ calibration \in {<<>>, <<NoURL>>, <<DataURL>>}

\* ------------------------------------------------------------------ claims
\* The callbacks of the last step tell which operation it was.
DartAccepted == Called("onDartDetected")
BoardMissed == CalledWith(onBoardDetected(FALSE))
BoardSeen == CalledWith(onBoardDetected(TRUE))
DartLanded == CalledWith(onMotionStatus("Dart landed!"))
\* startTurn() is the only operation whose callbacks are one onStateChange to a
\* state other than idle and waiting-removal.
StartTurnCompleted ==
    /\ Len(callbacks) = 1
    /\ callbacks[1].cb = "onStateChange"
    /\ callbacks[1].arg \notin {"idle", "waiting-removal"}
\* checkRemoval is the only operation that turns the tracker idle and keeps a
\* previous frame, the frame it has just compared.
RemovalDetected ==
    /\ callbacks = <<onStateChange("idle")>>
    /\ previousFrame # NoFrame
EmptyBoard == <<0>>

\* C1: the dart list never holds more than three darts, and the dart number
\* handed to onDartDetected is 1, 2 or 3.
C1_AtMostThreeDarts ==
    /\ Len(detectedDarts) <= 3
    /\ \A i \in 1..Len(callbacks) :
          callbacks[i].cb = "onDartDetected" => callbacks[i].n \in 1..3

\* C2: the tracker leaves waiting-removal for idle only when the frame it
\* compared shows the empty board, never while darts are in the board.
C2_IdleOnlyWhenBoardEmpty ==
    RemovalDetected => previousFrame = EmptyBoard /\ referenceOrigin = "startTurn"

\* C3: from turn-complete the only next state is waiting-removal (startTurn()
\* aside, which starts a new turn).
C3_TurnCompleteThenRemoval ==
    [][state = "turn-complete" /\ timers'["settle"] = timers["settle"]
        => state' \in {"turn-complete", "waiting-removal"}]_vars

\* C4: at most one loop iteration is executing or scheduled at any time.
C4_OneIteration == Cardinality(rafPending) + Len(inflight) <= 1

\* C5: a dart is accepted only when DETECTION_DEBOUNCE_MS have passed since
\* the previous accepted dart.
C5_DebounceAlways ==
    DartAccepted => lastAccept.after >= DETECTION_DEBOUNCE_MS

\* C6: onTurnComplete is invoked only with exactly three detections and with
\* the tracker in turn-complete, and it is invoked whenever the third dart is
\* accepted.
C6_TurnCompleteWithThree ==
    /\ Called("onTurnComplete")
          => /\ CalledWith(onTurnComplete(<<Dart, Dart, Dart>>))
             /\ Len(detectedDarts) = 3
             /\ state = "turn-complete"
    /\ CalledWith(onDartDetected(3)) => Called("onTurnComplete")
C6_Witness ==
    /\ CalledWith(onDartDetected(3))
    /\ Called("onTurnComplete")
    /\ state = "turn-complete"

\* C7: while the loop is stopped no iteration is scheduled.
C7_NothingScheduledWhenStopped == ~isRunning => rafPending = {}

\* C8: when startTurn() completes the tracker is in waiting-dart-1 if the
\* board geometry is known and in no-board otherwise, with the dart list empty
\* and the motion state reset.
C8_StartTurnByGeometry ==
    StartTurnCompleted
        => /\ state = (IF currentBoard THEN "waiting-dart-1" ELSE "no-board")
           /\ detectedDarts = <<>>
           /\ motionState = createMotionState

\* C9: when board detection fails while the tracker waits for a dart, it goes
\* to no-board and scores no dart in that iteration; an iteration that detects
\* the board in no-board leaves no-board.
C9_BoardLostAndFound ==
    [][/\ IsWaitingDart(state) /\ BoardMissed'
            => /\ state' = "no-board"
               /\ detectedDarts' = detectedDarts
               /\ ~DartAccepted'
       /\ state = "no-board" /\ BoardSeen'
            => IsWaitingDart(state') \/ state' = "turn-complete"]_vars
\* The board was missed during a turn with a dart scored, and is seen again.
C9_Witness ==
    /\ BoardSeen
    /\ CalledWith(onStateChange("waiting-dart-1"))
    /\ Len(detectedDarts) > 0

\* C10: after every accepted dart the reference frame is the frame in which
\* that dart was detected: it shows that dart and the darts landed before it,
\* and nothing else.
C10_ReferenceShowsDart ==
    DartAccepted
        => /\ referenceFrame = previousFrame
           /\ referenceOrigin = "dart"

\* reset() is the only operation that reports idle and resumes no suspended
\* iteration.
ResetCalled ==
    /\ callbacks' = <<onStateChange("idle")>>
    /\ inflight' = inflight

\* C11: reset() halts the loop and leaves the tracker idle with an empty dart
\* list, no reference frame (the frame, its data URL and the previous frame),
\* a fresh motion state, no board geometry and an empty smoother history, and
\* it leaves the persisted calibration as it was.
C11_ResetClearsTurn ==
    [][ResetCalled
        => /\ ~isRunning'
           /\ detectionInterval' = 0
           /\ rafPending' = {}
           /\ state' = "idle"
           /\ detectedDarts' = <<>>
           /\ referenceFrame' = NoFrame
           /\ referenceFrameDataURL' = NoURL
           /\ previousFrame' = NoFrame
           /\ motionState' = createMotionState
           /\ ~currentBoard'
           /\ boardSmoother' = 0
           /\ calibration' = calibration]_vars

\* C12: an exception thrown inside a loop iteration is caught and does not end
\* the loop: while the tracker is running every iteration is followed by the
\* scheduling of exactly one next iteration, so the number of iterations that
\* are scheduled or suspended never changes, and the iteration that caught an
\* exception has scheduled its successor.
C12_LoopSurvivesException ==
    [][/\ isRunning /\ isRunning' => Loops' = Loops
       /\ CalledWith(consoleError)' /\ isRunning'
            => /\ detectionInterval' \in rafPending'
               /\ Loops' = IF isRunning THEN Loops ELSE Loops + 1]_vars
\* An iteration of the running loop has caught an exception and the next
\* iteration is scheduled.
C12_Witness ==
    /\ CalledWith(consoleError)
    /\ isRunning
    /\ detectionInterval \in rafPending

\* C13: when checkRemoval finds the change below REMOVAL_THRESHOLD the tracker
\* becomes idle and exactly one timer of AutoStartDelayMs is armed; when that
\* timer fires startTurn() is called, once; and with the loop running and the
\* board visible the tracker is in waiting-dart-1 again later.
C13_RemovalRestartsTurn ==
    /\ [][RemovalDetected' /\ inflight' # inflight
            => /\ state' = "idle"
               /\ timers' = Arm(timers, "autoStart", AutoStartDelayMs)]_vars
    /\ [][timers["autoStart"][0] > timers'["autoStart"][0]
            => /\ timers'["autoStart"][0] = timers["autoStart"][0] - 1
               /\ timers'["settle"][SettleDelayMs] = timers["settle"][SettleDelayMs] + 1]_vars
    /\ (RemovalDetected ~> state = "waiting-dart-1")

\* C14: once a frame with motion was fed, the stabilizer reports stable on the
\* 15th consecutive call without motion and on none of the 14 before it, and a
\* call with motion puts stabilityFrames back to 0 and isStable to false.
C14_StableOnFifteenth ==
    /\ sawMotion => stabilizer.isStable = (quietCalls >= STABILITY_FRAMES_REQUIRED)
    /\ stabilizer.stabilityFrames = quietCalls
    /\ stabilizer.hasMotion => stabilizer.stabilityFrames = 0 /\ ~stabilizer.isStable
    /\ stabilizer.hasMotion = (sawMotion /\ quietCalls = 0)
\* The 15th call without motion after a call with motion, the last of them
\* with a change of exactly MOTION_THRESHOLD.
C14_Witness ==
    /\ sawMotion
    /\ quietCalls = STABILITY_FRAMES_REQUIRED
    /\ stabilizer.isStable
    /\ stabilizer.lastMotionArea = MOTION_THRESHOLD

\* C15: a dart is emitted only by an iteration in which the stabilizer reports
\* stable, that is on the 15th or a later consecutive call without motion since
\* the last motion or the last accepted dart, and never by an iteration whose
\* frame differs from the previous frame by more than MOTION_THRESHOLD.
C15_DartOnlyWhenStable ==
    [][DartAccepted'
        => /\ DartLanded'
           /\ ~CalledWith(onMotionStatus("Motion detected..."))'
           /\ motionState.stabilityFrames + 1 >= STABILITY_FRAMES_REQUIRED
           /\ measuredArea' <= MOTION_THRESHOLD]_vars
\* A second dart has been accepted in the iteration in which it appeared,
\* changing less than MOTION_THRESHOLD: the stabilizer counted from 0 after
\* the first dart.
C15_Witness ==
    /\ CalledWith(onDartDetected(2))
    /\ DartLanded
    /\ motionState = createMotionState
    /\ measuredArea = SmallDartChangeArea

\* The tracker waits for a dart and has no reference frame.
NoReferenceFrame == IsWaitingDart(state) /\ referenceFrame = NoFrame

\* C16: an iteration that finds no reference frame skips dart detection and
\* leaves the tracker state alone, and the condition passes: with the loop
\* running a reference frame is there again later, so that darts can be
\* detected in the running turn.
C16_ReferenceRecovered ==
    /\ [][NoReferenceFrame /\ BoardSeen'
            => state' = state /\ detectedDarts' = detectedDarts /\ ~DartAccepted']_vars
    /\ (NoReferenceFrame ~> referenceFrame # NoFrame)

\* C17: onBoardDetected is invoked only when the board-detected status
\* changes: two iterations in a row never report the same status.
C17_BoardCallbackOnChange ==
    [][/\ BoardSeen => ~BoardSeen'
       /\ BoardMissed => ~BoardMissed']_vars

\* C18: a pixel is set in a colour mask only if its hue, saturation and value
\* all meet the bounds of the range; for red the hue bound is [0,15] or >= 345.
C18_MaskOnlyWithinBounds ==
    masks # <<>> =>
        LET hsv == masks[1].hsv
            Met(range) ==
                /\ IF range = RED_HSV
                   THEN flWithin(hsv.h, 0, 15) \/ ~flLess(hsv.h, Double(345))
                   ELSE flWithin(hsv.h, range.hMin, range.hMax)
                /\ flWithin(hsv.s, range.sMin, range.sMax)
                /\ flWithin(hsv.v, range.vMin, range.vMax)
        IN  /\ masks[1].blue => Met(BLUE_HSV)
            /\ masks[1].white => Met(WHITE_HSV)
            /\ masks[1].red => Met(RED_HSV)

\* C19: a pixel whose hue is in [345,360] and whose saturation and value are
\* inside the red range is set in the red mask; hue 358 is one of them.
C19_RedWrapsAround ==
    masks # <<>> =>
        LET hsv == masks[1].hsv
        IN  /\ flWithin(hsv.h, 345, 360)
            /\ flWithin(hsv.s, RED_HSV.sMin, RED_HSV.sMax)
            /\ flWithin(hsv.v, RED_HSV.vMin, RED_HSV.vMax)
            => masks[1].red
\* The pixel (255, 15, 23), of hue 358, saturation 240 and value 255, is red.
C19_Witness ==
    /\ pixel = <<255, 15, 23>>
    /\ masks # <<>>
    /\ masks[1].hsv = [h |-> Double(358), s |-> Double(240), v |-> Double(255)]
    /\ masks[1].red

\* C20: the change area detectFrameDifference returns is the total number of
\* changed pixels, the pixels set in the thresholded, dilated mask; with it
\* come the largest qualifying contour and its centroid.
C20_ChangeAreaIsTotal ==
    diffResult # <<>> =>
        LET total[i \in 0..Len(regions)] ==
                IF i = 0 THEN 0 ELSE total[i - 1] + regions[i]
        IN  /\ diffResult[1].changeArea = total[Len(regions)]
            /\ diffResult[1].centerOfMass = diffResult[1].largestContour

\* C21: a validated dart candidate is accepted exactly when its confidence is
\* at least the acceptance threshold, 0.5 in the tracker and 0.4 in the smart
\* detector; a confidence equal to the threshold is accepted.
C21_AcceptedAtThreshold ==
    verdict # <<>> =>
        /\ verdict[1].accepted <=>
               (verdict[1].isValid /\ verdict[1].confidence >= AcceptConfidencePct)
        /\ verdict[1].plainAccepted <=>
               (verdict[1].isValid
                /\ verdict[1].plainConfidence >= AcceptConfidencePct)
        /\ verdict[1].smartDetected <=>
               (verdict[1].smartConfidence >= SmartAcceptPct)

\* C26: every confidence the core produces lies in [0,1]: the confidence of a
\* board detection of either board detector, the smoothed board confidence,
\* the confidence of a dart candidate under both validators and the smart
\* detector, and the confidence of an emitted DartDetection.  A call that
\* threw produced none.
C26_ConfidenceInUnitInterval ==
    /\ verdict # <<>> =>
           /\ verdict[1].confidence \in 0..100
           /\ verdict[1].plainConfidence \in 0..100
           /\ verdict[1].smartConfidence \in 0..100
           /\ \A i \in 1..Len(verdict[1].emitted) :
                  verdict[1].emitted[i] \in 0..100
    /\ boardResult # <<>> =>
           /\ boardResult[1].score # RangeError => boardResult[1].score \in 0..1000
           /\ \A i \in 1..Len(boardResult[1].detection) :
                  boardResult[1].detection[i] # RangeError
                      => boardResult[1].detection[i] \in 0..1000
           /\ boardResult[1].smoothed # <<>> =>
                  /\ boardResult[1].smoothed[1] >= 0
                  /\ boardResult[1].smoothed[1] <= 1000 * boardResult[1].smoothed[2]
    /\ \A i \in 1..Len(detections) : detections[i] \in 0..1000

\* The smoother holds maxHistory detections, four of the highest confidence
\* and the latest of confidence 0.7, and the frame showed a dart that every
\* detector gives the highest confidence.
C26_Witness ==
    /\ boardResult # <<>>
    /\ Len(detections) = maxHistory
    /\ boardResult[1].detection = <<700>>
    /\ boardResult[1].smoothed = <<4700, maxHistory>>
    /\ verdict # <<>>
    /\ verdict[1].emitted = <<100>>
    /\ verdict[1].smartConfidence = 100

\* C22: round trip of the segment mapper: for every segment s in 1..20 and
\* multiplier m in {1,2,3}, the point at the centre angle of the wedge of s
\* and at the middle of a ring of m maps back to s, m and s * m points.
C22_RoundTrip ==
    mapped # <<>> =>
        \A s \in 1..20, m \in 1..3 :
            \A d \in MidDistances(m) :
                point[1] = polarPoint(centreAngle(s), d) =>
                    /\ mapped[1].result.segment = s
                    /\ mapped[1].result.multiplier = m
                    /\ mapped[1].result.points = s * m

\* The centre of the triple ring of segment 19 was mapped.
C22_Witness ==
    /\ mapped # <<>>
    /\ point[1] = polarPoint(centreAngle(19), midDistance(RING_BOUNDARIES.triple))
    /\ mapped[1].result.points = 57

\* C23: a point whose distance is in (0.582, 0.629] and whose angle is in
\* [351,360) or [0,9) maps to segment 20, multiplier 3, 60 points, on the
\* grid and at the polar positions next to the boundaries; the angle 351
\* itself belongs to segment 20, as do the last angles below 360 and below 9,
\* and the angle 9 does not.
C23_TripleTwenty ==
    /\ mapped # <<>> /\ InTripleRing(point[1]) =>
           /\ mapped[1].polar.angle \in {Double(351), Double(0)} =>
                  /\ mapped[1].result.segment = 20
                  /\ mapped[1].result.multiplier = 3
                  /\ mapped[1].result.points = 60
           /\ mapped[1].polar.angle = Double(9) => mapped[1].result.segment # 20
    /\ wedge # <<>> /\ InTriple(wedge[1].polar.distance) =>
           /\ wedge[1].polar.angle \in {Double(351), Before(Double(360)),
                                        Double(0), Before(Double(9))}
                  => /\ wedge[1].segment = 20
                     /\ wedge[1].ringInfo.multiplier = 3
           /\ wedge[1].polar.angle = Double(9) => wedge[1].segment # 20

\* C24: a point further than 1.0 from the centre maps to segment 0,
\* multiplier 1, 0 points, at every angle; so does every polar position
\* whose distance is above 1.0, the next double after 1.0 included.
C24_MissBeyondBoard ==
    /\ mapped # <<>> /\ OffBoard(point[1]) =>
           /\ mapped[1].result.segment = 0
           /\ mapped[1].result.multiplier = 1
           /\ mapped[1].result.points = 0
    /\ wedge # <<>> /\ flLess(Double(1), wedge[1].polar.distance) =>
           wedge[1].ringInfo = [ring |-> "miss", multiplier |-> 1, isBull |-> FALSE]

\* The point of the grid that is nearest to the double ring outside it, one
\* thousandth beside the lowest point of the ring, was mapped to a miss.
C24_Witness ==
    /\ mapped # <<>>
    /\ point[1] = [x |-> 1, y |-> RING_BOUNDARIES.double.outer]
    /\ OffBoard(point[1])
    /\ mapped[1].polar.angle = Double(171)
    /\ mapped[1].result.segment = 0

\* C25: validateDetection accepts every result of mapToSegment: the segment
\* is 0, one of 1..20, 25 or 50, the multiplier is 1, 2 or 3, the points of
\* a segment 1..20 are segment * multiplier, and 25 and 50 come with
\* multiplier 1.
C25_MappedResultsValid ==
    mapped # <<>> =>
        /\ mapped[1].valid
        /\ mapped[1].result.segment \in {0} \cup (1..20) \cup {25, 50}
        /\ mapped[1].result.multiplier \in {1, 2, 3}
        /\ mapped[1].result.segment \in 1..20 =>
               mapped[1].result.points
                   = mapped[1].result.segment * mapped[1].result.multiplier
        /\ mapped[1].result.segment \in {25, 50} =>
               mapped[1].result.multiplier = 1

\* A double 16 was mapped and validated.
C25_Witness ==
    /\ mapped # <<>>
    /\ mapped[1].valid
    /\ mapped[1].result.segment = 16
    /\ mapped[1].result.multiplier = 2
    /\ mapped[1].result.points = 32

\* C27: whenever the tracker waits for dart n, the turn's dart list holds
\* exactly n - 1 detections, also after the board was lost and found again in
\* the middle of a turn.
C27_WaitingDartCountsDarts ==
    /\ state = "waiting-dart-1" => Len(detectedDarts) = 0
    /\ state = "waiting-dart-2" => Len(detectedDarts) = 1
    /\ state = "waiting-dart-3" => Len(detectedDarts) = 2

\* A timer armed earlier fires, or a startTurn() that was waiting for the
\* board to settle goes on.
TimerFires == ToWaitingRemoval \/ AutoStartTurn \/ StartTurnSettled

\* C28: after reset() the tracker stays idle until the caller calls
\* startTurn() again: no timer armed before the reset and no startTurn() that
\* was in its settle wait changes the state, invokes a callback or overwrites
\* the reference frame or the persisted calibration.
C28_ResetSilencesTimers ==
    [][afterReset = "idle" /\ TimerFires =>
          /\ state' = "idle"
          /\ callbacks' = <<>>
          /\ referenceFrame' = referenceFrame
          /\ calibration' = calibration]_vars

\* reset() and then startTurn() were called, and startTurn() captured its
\* reference frame: the tracker waits for the board.
TurnRestarted == afterReset = "restarted" /\ state = "no-board"

\* C29: after reset() followed by startTurn(), with the board in view and
\* frames available, the tracker eventually leaves no-board and waits for the
\* first dart.
C29_RestartReachesFirstDart == TurnRestarted ~> state = "waiting-dart-1"

\* startTurn() returns early: the tracker is not initialized, or the capture
\* of the reference frame failed.
StartTurnGaveUp ==
    \/ (CallStartTurn \/ RestartTurn) /\ ~video
    \/ StartTurnSettled /\ referenceFrame' = NoFrame

\* C30: a startTurn() that cannot capture a reference frame, or that finds
\* the tracker not initialized, leaves the tracker as it was: state, dart
\* list, motion state and the existing reference frame keep their values and
\* no callback is invoked.
C30_FailedStartTurnChangesNothing ==
    [][StartTurnGaveUp =>
          /\ state' = state
          /\ detectedDarts' = detectedDarts
          /\ motionState' = motionState
          /\ referenceFrame' = referenceFrame
          /\ callbacks' = <<>>]_vars

====
